---- MODULE Spec2Model ----
(***************************************************************************)
(* Model of the atlasbr census core: the theme catalog                     *)
(* (core/catalog/census.py), the harmonization handlers                    *)
(* (core/logic/census.py), the IBGE archive resolver                       *)
(* (infra/adapters/census_ftp.py) and the orchestrator (app/census.py).    *)
(*                                                                         *)
(* Each component has its own variables and its own specification; a       *)
(* specification leaves the variables of the other components idle.        *)
(***************************************************************************)
EXTENDS Integers, Sequences, FiniteSets, TLC

VARIABLES
    catPos,     \* rows of CENSUS_CATALOG already put into _CATALOG_INDEX
    catIndex,   \* _CATALOG_INDEX: key <<theme, year, strategy>> -> row
    catReq,     \* last key passed to get_census_spec
    catRes,     \* what that call returned or raised
    ageIn,      \* last call of an age handler: year, strategy, input table
    ageOut,     \* the table it returned
    raceIn,     \* last call of _handle_race_2022: strategy, input table
    raceOut,    \* the table it returned
    pickIn,     \* last call of _pick_zip_for_stem: listing, stem
    pickOut,    \* the URL it returned or the error it raised
    planIn,     \* last call of _resolve_target_urls: spec, munis, listing
    planOut,    \* the fetch plan it returned or the error it raised
    lc,         \* the running load_census call
    ft,         \* the running fetch_census_ftp call
    mk,         \* last call of create_urban_mask and clip_to_mask
    pt,         \* last call of prepare_tracts, and of prepare_tracts on its result
    sd,         \* last call of standardize_census_dataframe
    dl,         \* the cache file system and the running cached_download call
    ex,         \* the extraction directory and the running cached_extract_zip call
    ix,         \* a catalog and the index built from it
    cl,         \* last classification of the columns before the hex reallocation
    cd,         \* the cache files and two concurrent cached_download calls
    jn          \* the theme tables, the tract table and their join

catVars  == <<catPos, catIndex, catReq, catRes>>
ageVars  == <<ageIn, ageOut>>
raceVars == <<raceIn, raceOut>>
pickVars == <<pickIn, pickOut>>
planVars == <<planIn, planOut>>
oldVars  == <<catPos, catIndex, catReq, catRes, ageIn, ageOut, raceIn, raceOut,
             pickIn, pickOut, planIn, planOut, lc>>
lateVars == <<ix, cl, cd, jn>>
moreVars == <<ft, mk, pt, sd, dl, ex, ix, cl, cd, jn>>
vars == <<catPos, catIndex, catReq, catRes, ageIn, ageOut, raceIn, raceOut,
          pickIn, pickOut, planIn, planOut, lc, ft, mk, pt, sd, dl, ex,
          ix, cl, cd, jn>>

\* Every variable holds a record; this one says that nothing was called yet.
Idle == [state |-> "idle"]
Done(value) == [state |-> "done", value |-> value]

(***************************************************************************)
(* Generic helpers                                                         *)
(***************************************************************************)
Range(s) == {s[i] : i \in 1..Len(s)}

SeqsUpTo(S, n) == UNION {[1..k -> S] : k \in 0..n}

RECURSIVE SumOver(_, _)
SumOver(S, f) ==
    IF S = {} THEN 0
    ELSE LET x == CHOOSE y \in S : TRUE IN f[x] + SumOver(S \ {x}, f)

Abs(n) == IF n < 0 THEN -n ELSE n

RECURSIVE GCD(_, _)
GCD(a, b) == IF b = 0 THEN a ELSE GCD(b, a % b)

(***************************************************************************)
(* Theme catalog: core/catalog/census.py                                   *)
(***************************************************************************)
BD_TABLE_BASIC_2010 == "setor_censitario_basico_2010"
BD_TABLE_AGE_2010   == "setor_censitario_idade_total_2010"
BD_TABLE_RACE_2010  == "setor_censitario_raca_idade_genero_2010"
BD_TABLE_SETOR_2022 == "populacao_domicilios"

\* url_template of an FtpResourceSpec, kept as the part that matters to the
\* resolver: does it still hold a {stem} placeholder, and which file it names.
FTP_TEMPLATE_2010 == [placeholder |-> TRUE,  file |-> "{stem}.zip"]
FTP_PESSOA11_2010 == [placeholder |-> FALSE, file |-> "Pessoa11.zip"]
URL_BASIC_2022    == [placeholder |-> FALSE, file |-> "Agregados_por_setores_basico_BR_20250417.zip"]
URL_INCOME_2022   == [placeholder |-> FALSE, file |-> "Agregados_por_setores_renda_responsavel_BR_csv.zip"]
URL_RACE_2022     == [placeholder |-> FALSE, file |-> "Agregados_por_setores_cor_ou_raca_BR.zip"]
URL_AGE_2022      == [placeholder |-> FALSE, file |-> "Agregados_por_setores_alfabetizacao_BR.zip"]

NoResource == <<>>

FtpResourceSpec(template, glob, idCol) ==
    <<[url_template |-> template, member_glob |-> glob, id_col |-> idCol]>>

CensusThemeSpec(theme, year, strategy, table, resources) ==
    [theme |-> theme, year |-> year, strategy |-> strategy,
     table_id |-> table, ftp_resources |-> resources]

CENSUS_CATALOG == <<
    CensusThemeSpec("basic",  2010, "bd_table", BD_TABLE_BASIC_2010, NoResource),
    CensusThemeSpec("income", 2010, "bd_table", BD_TABLE_BASIC_2010, NoResource),
    CensusThemeSpec("age",    2010, "bd_table", BD_TABLE_AGE_2010,   NoResource),
    CensusThemeSpec("race",   2010, "bd_table", BD_TABLE_RACE_2010,  NoResource),
    CensusThemeSpec("basic",  2010, "ftp_csv", "none",
                    FtpResourceSpec(FTP_TEMPLATE_2010, "Basico_*.csv", "Cod_setor")),
    CensusThemeSpec("income", 2010, "ftp_csv", "none",
                    FtpResourceSpec(FTP_TEMPLATE_2010, "Basico_*.csv", "Cod_setor")),
    CensusThemeSpec("race",   2010, "ftp_csv", "none",
                    FtpResourceSpec(FTP_TEMPLATE_2010, "Pessoa03_*.csv", "Cod_setor")),
    CensusThemeSpec("age",    2010, "ftp_csv", "none",
                    FtpResourceSpec(FTP_PESSOA11_2010, "Pessoa11_*.csv", "Cod_setor")),
    CensusThemeSpec("basic",  2022, "bd_table", BD_TABLE_SETOR_2022, NoResource),
    CensusThemeSpec("age",    2022, "bd_table", BD_TABLE_SETOR_2022, NoResource),
    CensusThemeSpec("race",   2022, "bd_table", BD_TABLE_SETOR_2022, NoResource),
    CensusThemeSpec("basic",  2022, "ftp_csv", "none",
                    FtpResourceSpec(URL_BASIC_2022, "*.csv", "CD_SETOR")),
    CensusThemeSpec("income", 2022, "ftp_csv", "none",
                    FtpResourceSpec(URL_INCOME_2022, "*.csv", "CD_SETOR")),
    CensusThemeSpec("race",   2022, "ftp_csv", "none",
                    FtpResourceSpec(URL_RACE_2022, "*.csv", "CD_SETOR")),
    CensusThemeSpec("age",    2022, "ftp_csv", "none",
                    FtpResourceSpec(URL_AGE_2022,
                                    "Agregados_por_setores_alfabetizacao_BR.csv",
                                    "CD_SETOR"))
>>

KeyOf(spec) == <<spec.theme, spec.year, spec.strategy>>

\* One step of the dict comprehension that builds _CATALOG_INDEX: the row's
\* key is bound to the row, replacing an earlier row of the same key.
IndexPut(index, spec) ==
    [k \in DOMAIN index \cup {KeyOf(spec)} |->
        IF k = KeyOf(spec) THEN spec ELSE index[k]]

EmptyIndex == <<>>

\* The keys the lookups of the model probe: the registered themes and two
\* unregistered ones, the census years and 1999, the two strategies and an
\* unknown one.
ProbeThemes     == {"basic", "income", "age", "race", "education", "housing"}
ProbeYears      == {1991, 1999, 2000, 2010, 2022}
ProbeStrategies == {"bd_table", "ftp_csv", "api"}

\* Python's order on the theme names (sorted() of str).
ThemeRank ==
    "age" :> 1 @@ "basic" :> 2 @@ "education" :> 3 @@ "housing" :> 4 @@
    "income" :> 5 @@ "race" :> 6

RECURSIVE SortedThemes(_)
SortedThemes(S) ==
    IF S = {} THEN <<>>
    ELSE LET m == CHOOSE t \in S : \A u \in S : ThemeRank[t] <= ThemeRank[u]
         IN <<m>> \o SortedThemes(S \ {m})

\* A variant of AvailableThemes that lists the themes of the year under any
\* strategy.
AvailableThemesAnyStrategy(index, year, strategy) ==
    SortedThemes({k[1] : k \in {q \in DOMAIN index : q[2] = year}})

AvailableThemes(index, year, strategy) ==
    SortedThemes({k[1] : k \in {q \in DOMAIN index :
                                   q[2] = year /\ q[3] = strategy}})

\* A variant of get_census_spec that falls back to another registered spec.
get_census_spec_fallback(index, year, theme, strategy) ==
    LET key == <<theme, year, strategy>>
        near == {k \in DOMAIN index : k[1] = theme /\ k[2] = year}
    IN IF key \in DOMAIN index
       THEN [kind |-> "spec", spec |-> index[key]]
       ELSE IF near # {}
       THEN [kind |-> "spec", spec |-> index[CHOOSE k \in near : TRUE]]
       ELSE [kind |-> "ValueError", theme |-> theme, year |-> year,
             strategy |-> strategy,
             available |-> AvailableThemes(index, year, strategy)]

\* get_census_spec: the registered row, or ValueError whose message holds
\* the year, the theme, the strategy and the sorted themes registered for
\* (year, strategy); with none registered the message says so (an empty
\* list here).
get_census_spec(index, year, theme, strategy) ==
    LET key == <<theme, year, strategy>>
    IN IF key \in DOMAIN index
       THEN [kind |-> "spec", spec |-> index[key]]
       ELSE [kind |-> "ValueError", theme |-> theme, year |-> year,
             strategy |-> strategy,
             available |-> AvailableThemes(index, year, strategy)]

CatIdle ==
    /\ catPos = 0
    /\ catIndex = EmptyIndex
    /\ catReq = Idle
    /\ catRes = Idle

\* Module import: the next row of CENSUS_CATALOG enters _CATALOG_INDEX.
CatRegister ==
    /\ catPos < Len(CENSUS_CATALOG)
    /\ catPos' = catPos + 1
    /\ catIndex' = IndexPut(catIndex, CENSUS_CATALOG[catPos + 1])
    /\ UNCHANGED <<catReq, catRes>>

\* A call of get_census_spec, possible once the module is imported.
CatLookup ==
    /\ catPos = Len(CENSUS_CATALOG)
    /\ \E theme \in ProbeThemes, year \in ProbeYears, strategy \in ProbeStrategies :
          /\ catReq' = [theme |-> theme, year |-> year, strategy |-> strategy]
          /\ catRes' = get_census_spec(catIndex, year, theme, strategy)
    /\ UNCHANGED <<catPos, catIndex>>

(***************************************************************************)
(* Cell values of a table. A cell is a float: a finite rational n/d in     *)
(* lowest terms, NaN (a missing value) or a signed infinity.               *)
(***************************************************************************)
Fin(m) == [k |-> "fin", n |-> m, d |-> 1]
NaN    == [k |-> "nan", n |-> 0, d |-> 1]
Inf(s) == [k |-> "inf", n |-> s, d |-> 1]

Sign(m) == IF m < 0 THEN -1 ELSE IF m = 0 THEN 0 ELSE 1

Ratio(m, e) ==
    LET g == GCD(Abs(m), e) IN [k |-> "fin", n |-> m \div g, d |-> e \div g]

IsNaN(x)    == x.k = "nan"
IsFinite(x) == x.k = "fin"
SignOf(x)   == Sign(x.n)

\* IEEE addition as numpy computes it.
FAdd(x, y) ==
    IF IsNaN(x) \/ IsNaN(y) THEN NaN
    ELSE IF x.k = "inf" /\ y.k = "inf"
         THEN (IF x.n = y.n THEN x ELSE NaN)
    ELSE IF x.k = "inf" THEN x
    ELSE IF y.k = "inf" THEN y
    ELSE Ratio(x.n * y.d + y.n * x.d, x.d * y.d)

FNeg(x) == IF IsNaN(x) THEN NaN ELSE [x EXCEPT !.n = -x.n]

FSub(x, y) == FAdd(x, FNeg(y))

FMul(x, y) ==
    IF IsNaN(x) \/ IsNaN(y) THEN NaN
    ELSE IF x.k = "inf" \/ y.k = "inf"
         THEN (IF SignOf(x) * SignOf(y) = 0 THEN NaN
               ELSE Inf(SignOf(x) * SignOf(y)))
    ELSE Ratio(x.n * y.n, x.d * y.d)

\* True division of pandas: x/0 is a signed infinity, 0/0 is NaN.
FDiv(x, y) ==
    IF IsNaN(x) \/ IsNaN(y) THEN NaN
    ELSE IF x.k = "inf" /\ y.k = "inf" THEN NaN
    ELSE IF x.k = "inf" THEN Inf(x.n * (IF y.n < 0 THEN -1 ELSE 1))
    ELSE IF y.k = "inf" THEN Fin(0)
    ELSE IF y.n = 0
         THEN (IF x.n = 0 THEN NaN ELSE Inf(Sign(x.n)))
    ELSE Ratio(x.n * y.d * Sign(y.n), x.d * Abs(y.n))

\* Series.fillna(0): only NaN is replaced, an infinity stays.
FillNa0(x) == IF IsNaN(x) THEN Fin(0) ELSE x

\* Series.clip(lower=0): NaN stays NaN.
ClipLower0(x) ==
    IF IsNaN(x) THEN NaN
    ELSE IF x.n < 0 THEN Fin(0)
    ELSE x

\* x >= 0 as a float comparison: false for NaN.
FGeq0(x) == ~IsNaN(x) /\ x.n >= 0

(***************************************************************************)
(* Tables. A column name is <<pattern, number, width>> for a name built as *)
(* f"{pattern}{number:0{width}d}" and <<name, 0, 0>> for any other name.   *)
(* A row is a function from the columns of its table to cells.             *)
(***************************************************************************)
ColName(pattern, i, width) == <<pattern, i, width>>
Named(name) == <<name, 0, 0>>

\* A variant of PyRange that includes the end.
PyRangeClosed(start, end, step) ==
    {i \in start..end : (i - start) % step = 0}

PyRange(start, end, step) ==
    {i \in start..(end - 1) : (i - start) % step = 0}

\* DataFrame.sum(axis=1) over the given columns: NaN cells are skipped.
RECURSIVE RowSum(_, _)
RowSum(row, cols) ==
    IF cols = {} THEN Fin(0)
    ELSE LET c == CHOOSE x \in cols : TRUE
         IN FAdd(FillNa0(row[c]), RowSum(row, cols \ {c}))

\* _sum_cols: the sum of the columns of the range that the table has, 0
\* when it has none of them.
SumCols(row, pattern, start, end, width, step) ==
    LET cols  == {ColName(pattern, i, width) : i \in PyRange(start, end, step)}
        valid == cols \cap DOMAIN row
    IN IF valid = {} THEN Fin(0) ELSE RowSum(row, valid)

\* df.get(name, 0) used as a column: the column, or the scalar 0.
GetOr0(row, c) == IF c \in DOMAIN row THEN row[c] ELSE Fin(0)

\* DataFrame.fillna(0)
FillNaRow(row) == [c \in DOMAIN row |-> FillNa0(row[c])]

AgeBrackets(a0, a15, a20, a65) ==
    (Named("age_0_14") :> a0) @@ (Named("age_15_19") :> a15) @@
    (Named("age_20_64") :> a20) @@ (Named("age_65p") :> a65)

(***************************************************************************)
(* Age handlers: core/logic/census.py                                      *)
(***************************************************************************)
MaxVal  == 2   \* cell values of the input tables range over 0..MaxVal and NaN
MaxCols == 3   \* an input table of an age handler has at most MaxCols columns

CellValues == {Fin(v) : v \in 0..MaxVal} \cup {NaN}

\* The columns the input tables are drawn from: the ends of the ranges the
\* handlers sum, and the total-population columns.
AgeCols2010 ==
    {ColName("v", i, 3) : i \in {22, 48, 49, 54, 99}}
        \cup {Named("habitantes")}
AgeCols2022 ==
    {ColName("V", i, 5) : i \in {644, 649, 654, 679}}
        \cup {Named("pessoas"), Named("habitantes")}

TablesOver(cols) ==
    UNION {[S -> CellValues] : S \in {T \in SUBSET cols : Cardinality(T) <= MaxCols}}

\* _handle_age_2010: the four brackets are sums of columns, the first one
\* v022 + v035..v048; the strategy is not used.
handle_age_2010(row, strategy) ==
    LET df == FillNaRow(row)
    IN AgeBrackets(
         FAdd(GetOr0(df, ColName("v", 22, 3)), SumCols(df, "v", 35, 49, 3, 1)),
         SumCols(df, "v", 49, 54, 3, 1),
         SumCols(df, "v", 54, 99, 3, 1),
         SumCols(df, "v", 99, 135, 3, 1))

\* Step 1 of _handle_age_2022: every column whose name starts with "V" is
\* coerced to numbers and its NaN cells become 0.
CoerceV(row) ==
    [c \in DOMAIN row |-> IF c[1] = "V" THEN FillNa0(row[c]) ELSE row[c]]

\* A variant of Residual0_14 without the clamp at 0.
Residual0_14_unclipped(df, total_col, adults_elderly) ==
    IF total_col # "none" /\ Named(total_col) \in DOMAIN df
    THEN FSub(df[Named(total_col)], adults_elderly)
    ELSE NaN

\* Step 3 of _handle_age_2022: the residual, clipped at 0, when the table
\* has the total column; NaN otherwise.
Residual0_14(df, total_col, adults_elderly) ==
    IF total_col # "none" /\ Named(total_col) \in DOMAIN df
    THEN ClipLower0(FSub(df[Named(total_col)], adults_elderly))
    ELSE NaN

\* A variant of ResidualOf that leaves age_65p out of the subtraction.
ResidualOfWithout65p(f15, f20, f65, df, total_col) ==
    Residual0_14(df, total_col, FAdd(f15, f20))

\* adults_elderly = age_15_19 + age_20_64 + age_65p, then the residual
ResidualOf(f15, f20, f65, df, total_col) ==
    Residual0_14(df, total_col, FAdd(FAdd(f15, f20), f65))

handle_age_2022(row, strategy) ==
    LET df == CoerceV(row)
    IN IF strategy = "bd_table"
       THEN LET a15 == GetOr0(df, ColName("V", 644, 5))
                a20 == SumCols(df, "V", 645, 654, 5, 1)
                a65 == SumCols(df, "V", 654, 657, 5, 1)
            IN AgeBrackets(ResidualOf(a15, a20, a65, df, "pessoas"),
                           a15, a20, a65)
       ELSE IF strategy = "ftp_csv"
       THEN LET a15 == GetOr0(df, ColName("V", 644, 5))
                a20 == SumCols(df, "V", 649, 675, 5, 5)
                a65 == GetOr0(df, ColName("V", 679, 5))
                tot == IF Named("habitantes") \in DOMAIN df
                       THEN "habitantes" ELSE "none"
            IN AgeBrackets(ResidualOf(a15, a20, a65, df, tot), a15, a20, a65)
       ELSE df

AgeStrategies == {"bd_table", "ftp_csv"}

AgeIdle == ageIn = Idle /\ ageOut = Idle

\* The calls of the age handlers the model makes.
AgeCalls(strategies) ==
    {[year |-> 2010, strategy |-> st, df |-> row] :
        st \in strategies, row \in TablesOver(AgeCols2010)}
    \cup
    {[year |-> 2022, strategy |-> st, df |-> row] :
        st \in strategies, row \in TablesOver(AgeCols2022)}

\* standardize_census_dataframe(df, "age", 2010, strategy)
HandleAge2010 ==
    /\ ageIn # Idle /\ ageOut = Idle
    /\ ageIn.year = 2010
    /\ ageOut' = Done(handle_age_2010(ageIn.df, ageIn.strategy))
    /\ UNCHANGED ageIn

\* standardize_census_dataframe(df, "age", 2022, strategy)
HandleAge2022 ==
    /\ ageIn # Idle /\ ageOut = Idle
    /\ ageIn.year = 2022
    /\ ageOut' = Done(handle_age_2022(ageIn.df, ageIn.strategy))
    /\ UNCHANGED ageIn

(***************************************************************************)
(* Race handler of 2022: core/logic/census.py                              *)
(***************************************************************************)
CENSO_RACES == <<"branca", "preta", "amarela", "parda", "indigena">>

\* f"cor_{race}" and f"race_{race}_15p"
CorName ==
    "branca" :> "cor_branca" @@ "preta" :> "cor_preta" @@
    "amarela" :> "cor_amarela" @@ "parda" :> "cor_parda" @@
    "indigena" :> "cor_indigena"

\* A tract id is a string of digits, kept as the sequence of its digits.
SaoPauloDigits  == <<3, 5, 5, 0, 3, 0, 8>>
SaoPedroDigits  == <<3, 5, 5, 0, 4, 0, 7>>
SectorA1 == SaoPauloDigits \o <<0, 5, 0, 0, 0, 0, 0, 1>>
SectorA2 == SaoPauloDigits \o <<0, 5, 0, 0, 0, 0, 0, 2>>
SectorB1 == SaoPedroDigits \o <<0, 5, 0, 0, 0, 0, 0, 1>>

\* Series.str.slice(0, 7)
StrSlice0_7(id) == SubSeq(id, 1, IF Len(id) < 7 THEN Len(id) ELSE 7)

\* The tables the race handler is run on: rows of one or two sectors, of one
\* municipality or of two, over these column sets.
RaceSectorSets == {{SectorA1}, {SectorA1, SectorA2}, {SectorA1, SectorB1}}
RaceSchemas == {
    {Named("pessoas"), ColName("V", 644, 5), ColName("V", 657, 5)},
    {Named("pessoas"), ColName("V", 656, 5), ColName("V", 716, 5)},
    {Named("pessoas"), ColName("V", 657, 5)},
    {ColName("V", 644, 5), ColName("V", 657, 5)} }

\* A sector's published total may be missing (NaN); the other cells are counts.
RaceRows(cols) ==
    {r \in [cols -> CellValues] :
        \A c \in cols : IsNaN(r[c]) => c = Named("pessoas")}

RaceTables(schemas) ==
    UNION {[ids -> RaceRows(cols)] : ids \in RaceSectorSets, cols \in schemas}

\* The pre-aggregated tables of the archive strategy.
RaceFtpSchemas == {
    {Named("cor_branca"), Named("cor_preta")},
    {Named("cor_branca"), Named("habitantes")} }
RaceFtpTables(schemas) ==
    UNION {[ids -> [cols -> CellValues]] : ids \in {{SectorA1}}, cols \in schemas}

\* The columns of a table (all its rows have the same ones).
ColumnsOf(df) == UNION {DOMAIN df[id] : id \in DOMAIN df}

\* df[cols]
SelectCols(df, cols) == [id \in DOMAIN df |-> [c \in cols |-> df[id][c]]]

\* The columns range(657 + i, 717, 5) of the race with index i (from 0).
Race15pCols(i) == {ColName("V", c, 5) : c \in PyRange(657 + i, 717, 5)}

\* df[valid_cols].sum(axis=1)
Race15p(row, i) == RowSum(row, Race15pCols(i) \cap DOMAIN row)

RECURSIVE FSum(_, _)
FSum(S, f) ==
    IF S = {} THEN Fin(0)
    ELSE LET x == CHOOSE y \in S : TRUE IN FAdd(f[x], FSum(S \ {x}, f))

\* A variant of SameMunicipality that groups all the rows together.
SameMunicipalityAll(df, id) == DOMAIN df

\* The rows grouped with a row by df.groupby("id_mun").
SameMunicipality(df, id) ==
    {o \in DOMAIN df : StrSlice0_7(o) = StrSlice0_7(id)}

\* muni_sums[...].div(muni_sums["pop_15p"], axis=0).fillna(0)
MuniRatio(raceSum, popSum) == FillNa0(FDiv(raceSum, popSum))

\* Steps 1 and 3 of _handle_race_2022 on one row.
Pop15p(row) == SumCols(row, "V", 644, 657, 5, 1)

\* A variant of Imputed that leaves the children out.
ImputedAdultsOnly(race15p, children, ratio) == race15p

\* Step 5: df[col_15p] + (df["age_0_14"] * ratio_series)
Imputed(race15p, children, ratio) == FAdd(race15p, FMul(children, ratio))

handle_race_2022(table, strategy) ==
    IF strategy = "ftp_csv"
    THEN SelectCols(table, {Named(CorName[CENSO_RACES[i]]) : i \in 1..5}
                               \cap ColumnsOf(table))
    ELSE
    LET df  == [id \in DOMAIN table |-> FillNaRow(table[id])]
        pop == [id \in DOMAIN df |-> Pop15p(df[id])]
    IN IF Named("pessoas") \notin ColumnsOf(df)
       THEN [id \in DOMAIN df |-> df[id] @@ (Named("pop_15p") :> pop[id])]
       ELSE
       LET kids == [id \in DOMAIN df |->
                       ClipLower0(FSub(df[id][Named("pessoas")], pop[id]))]
           r15(i) == [id \in DOMAIN df |-> Race15p(df[id], i - 1)]
           ratio(id, i) ==
               MuniRatio(FSum(SameMunicipality(df, id), r15(i)),
                         FSum(SameMunicipality(df, id), pop))
       IN [id \in DOMAIN df |->
             [c \in {Named(CorName[CENSO_RACES[i]]) : i \in 1..5} |->
                LET i == CHOOSE j \in 1..5 : Named(CorName[CENSO_RACES[j]]) = c
                IN Imputed(r15(i)[id], kids[id], ratio(id, i))]]

RaceIdle == raceIn = Idle /\ raceOut = Idle

\* The calls of the race handler the model makes.
RaceCalls(bdSchemas, ftpSchemas) ==
    {[strategy |-> "bd_table", df |-> t] : t \in RaceTables(bdSchemas)}
    \cup {[strategy |-> "ftp_csv", df |-> t] : t \in RaceFtpTables(ftpSchemas)}

\* standardize_census_dataframe(df, "race", 2022, "bd_table")
HandleRace2022Bd ==
    /\ raceIn # Idle /\ raceOut = Idle
    /\ raceIn.strategy = "bd_table"
    /\ raceOut' = Done(handle_race_2022(raceIn.df, "bd_table"))
    /\ UNCHANGED raceIn

\* standardize_census_dataframe(df, "race", 2022, "ftp_csv")
HandleRace2022Ftp ==
    /\ raceIn # Idle /\ raceOut = Idle
    /\ raceIn.strategy = "ftp_csv"
    /\ raceOut' = Done(handle_race_2022(raceIn.df, "ftp_csv"))
    /\ UNCHANGED raceIn

(***************************************************************************)
(* Archive resolution: infra/adapters/census_ftp.py                        *)
(* A file name, a stem and a date token are strings, kept as sequences of  *)
(* their characters.                                                       *)
(***************************************************************************)
UpperLetters == <<"A", "C", "E", "J", "O", "P", "R", "S", "T", "X", "Z", "I", "L", "D", "V">>
LowerLetters == <<"a", "c", "e", "j", "o", "p", "r", "s", "t", "x", "z", "i", "l", "d", "v">>

\* str.lower() and str.upper() on one character
LowerChar(c) ==
    IF \E i \in 1..Len(UpperLetters) : UpperLetters[i] = c
    THEN LowerLetters[CHOOSE i \in 1..Len(UpperLetters) : UpperLetters[i] = c]
    ELSE c
UpperChar(c) ==
    IF \E i \in 1..Len(LowerLetters) : LowerLetters[i] = c
    THEN UpperLetters[CHOOSE i \in 1..Len(LowerLetters) : LowerLetters[i] = c]
    ELSE c
Lower(str) == [i \in 1..Len(str) |-> LowerChar(str[i])]
Upper(str) == [i \in 1..Len(str) |-> UpperChar(str[i])]

DigitChars == <<"0", "1", "2", "3", "4", "5", "6", "7", "8", "9">>
IsDigit(c) == \E i \in 1..10 : DigitChars[i] = c
DigitRank(c) == CHOOSE i \in 1..10 : DigitChars[i] = c

StartsWith(str, prefix) ==
    Len(str) >= Len(prefix) /\ SubSeq(str, 1, Len(prefix)) = prefix
Contains(str, part) ==
    \E i \in 1..(Len(str) - Len(part) + 1) :
        SubSeq(str, i, i + Len(part) - 1) = part

\* PurePosixPath(f).name: what follows the last "/"
Basename(f) ==
    IF \E i \in 1..Len(f) : f[i] = "/"
    THEN LET last == CHOOSE i \in 1..Len(f) :
                        f[i] = "/" /\ \A j \in (i + 1)..Len(f) : f[j] # "/"
         IN SubSeq(f, last + 1, Len(f))
    ELSE f

DotZip == <<".", "z", "i", "p">>
Underscore == <<"_">>

\* name ends, whatever the case, with _<8 digits>.zip
EndsWithDateZip(name) ==
    /\ Len(name) >= 13
    /\ Lower(SubSeq(name, Len(name) - 3, Len(name))) = DotZip
    /\ \A i \in (Len(name) - 11)..(Len(name) - 4) : IsDigit(name[i])
    /\ name[Len(name) - 12] = "_"

\* group(1) of a match: the 8 digits before .zip
DateToken(name) == SubSeq(name, Len(name) - 11, Len(name) - 4)

\* re.fullmatch(rf"{stem}_(\d{8})\.zip", name, re.IGNORECASE)
MatchesDated(name, stem) ==
    /\ Len(name) = Len(stem) + 13
    /\ EndsWithDateZip(name)
    /\ Lower(SubSeq(name, 1, Len(stem))) = Lower(stem)

\* re.fullmatch(rf"{stem}\.zip", name, re.IGNORECASE)
MatchesUndated(name, stem) == Lower(name) = Lower(stem \o DotZip)

\* re.fullmatch(r"SP_.*Capital_(\d{8})\.zip", name, re.IGNORECASE) and
\* "EXCETO" not in name.upper()
MatchesFuzzyCapital(name) ==
    /\ Len(name) >= 3 + 8 + 12
    /\ StartsWith(Lower(name), <<"s", "p", "_">>)
    /\ EndsWithDateZip(name)
    /\ Lower(SubSeq(name, Len(name) - 19, Len(name) - 12))
          = <<"c", "a", "p", "i", "t", "a", "l", "_">>
    /\ ~Contains(Upper(name), <<"E", "X", "C", "E", "T", "O">>)

\* re.fullmatch(r"SP_Exceto.*Capital_(\d{8})\.zip", name, re.IGNORECASE)
MatchesFuzzyExceto(name) ==
    /\ Len(name) >= 9 + 8 + 12
    /\ StartsWith(Lower(name), <<"s", "p", "_", "e", "x", "c", "e", "t", "o">>)
    /\ EndsWithDateZip(name)
    /\ Lower(SubSeq(name, Len(name) - 19, Len(name) - 12))
          = <<"c", "a", "p", "i", "t", "a", "l", "_">>

\* a < b for two strings of digits (Python's order on str)
RECURSIVE StrLess(_, _)
StrLess(a, b) ==
    IF a = <<>> THEN b # <<>>
    ELSE IF b = <<>> THEN FALSE
    ELSE IF a[1] = b[1] THEN StrLess(Tail(a), Tail(b))
    ELSE DigitRank(a[1]) < DigitRank(b[1])

UndatedToken == <<"0", "0", "0", "0", "0", "0", "0", "0">>

\* The first loop of _pick_zip_for_stem: the (date, name) pairs of the
\* files that match the stem, in the order of the listing.
RECURSIVE StrictCandidates(_, _)
StrictCandidates(files, stem) ==
    IF files = <<>> THEN <<>>
    ELSE LET name == Basename(Head(files))
             rest == StrictCandidates(Tail(files), stem)
         IN IF MatchesDated(name, stem)
            THEN <<[date |-> DateToken(name), name |-> name]>> \o rest
            ELSE IF MatchesUndated(name, stem)
            THEN <<[date |-> UndatedToken, name |-> name]>> \o rest
            ELSE rest

RECURSIVE FuzzyCandidates(_, _)
FuzzyCandidates(files, exceto) ==
    IF files = <<>> THEN <<>>
    ELSE LET name == Basename(Head(files))
             rest == FuzzyCandidates(Tail(files), exceto)
         IN IF (exceto /\ MatchesFuzzyExceto(name))
               \/ (~exceto /\ MatchesFuzzyCapital(name))
            THEN <<[date |-> DateToken(name), name |-> name]>> \o rest
            ELSE rest

\* max(candidates, key=lambda x: x[0]): the first candidate no other one
\* has a greater date than.
PyMaxByDate(candidates) ==
    candidates[CHOOSE i \in 1..Len(candidates) :
        /\ \A j \in 1..Len(candidates) :
              ~StrLess(candidates[i].date, candidates[j].date)
        /\ \A j \in 1..(i - 1) :
              StrLess(candidates[j].date, candidates[i].date)]

SP_CAPITAL_UPPER == <<"S", "P", "_", "C", "A", "P", "I", "T", "A", "L">>
SP_EXCETO_UPPER  == <<"S", "P", "_", "E", "X", "C", "E", "T", "O">>

\* _pick_zip_for_stem(dir_url, stem) on the listing of dir_url: the name
\* that follows dir_url + "/" in the URL it returns, or FileNotFoundError.
pick_zip_for_stem(files, stem) ==
    LET strict == StrictCandidates(files, stem)
        fuzzy1 == IF strict = <<>> /\ Upper(stem) = SP_CAPITAL_UPPER
                  THEN FuzzyCandidates(files, FALSE) ELSE strict
        fuzzy2 == IF fuzzy1 = <<>> /\ StartsWith(Upper(stem), SP_EXCETO_UPPER)
                  THEN FuzzyCandidates(files, TRUE) ELSE fuzzy1
    IN IF fuzzy2 = <<>>
       THEN [kind |-> "FileNotFoundError", stem |-> stem]
       ELSE [kind |-> "url", name |-> PyMaxByDate(fuzzy2).name]

\* The stems and the files of the listings the model uses.
StemRJ        == <<"R", "J">>
StemSPCapital == <<"S", "P", "_", "C", "a", "p", "i", "t", "a", "l">>
StemSPExceto  == <<"S", "P", "_", "E", "x", "c", "e", "t", "o", "_", "a", "_",
                   "C", "a", "p", "i", "t", "a", "l">>
Date20100101 == <<"2", "0", "1", "0", "0", "1", "0", "1">>
Date20110615 == <<"2", "0", "1", "1", "0", "6", "1", "5">>

FileRJ2010       == StemRJ \o Underscore \o Date20100101 \o DotZip
FileRJ2011       == StemRJ \o Underscore \o Date20110615 \o DotZip
FileRJLower2011  == <<"d", "/", "r", "j">> \o Underscore \o Date20110615
                       \o <<".", "Z", "I", "P">>
FileRJUndated    == StemRJ \o DotZip
FileRJZeroDate   == StemRJ \o Underscore \o UndatedToken \o DotZip
FileRJX2011      == <<"R", "J", "X">> \o Underscore \o Date20110615 \o DotZip
FileSPCapital2010 == StemSPCapital \o Underscore \o Date20100101 \o DotZip
FileSPExceto2011  == StemSPExceto \o Underscore \o Date20110615 \o DotZip
FileSPFuzzyCapital2011 ==
    <<"S", "P", "_", "a", "_", "C", "a", "p", "i", "t", "a", "l">>
        \o Underscore \o Date20110615 \o DotZip
FileSPFuzzyExceto2010 ==
    <<"S", "P", "_", "E", "x", "c", "e", "t", "o", "_",
      "C", "a", "p", "i", "t", "a", "l">> \o Underscore \o Date20100101 \o DotZip

ListedFiles ==
    {FileRJ2010, FileRJ2011, FileRJLower2011, FileRJUndated, FileRJZeroDate,
     FileRJX2011, FileSPCapital2010, FileSPExceto2011, FileSPFuzzyCapital2011,
     FileSPFuzzyExceto2010}

MaxListing == 3   \* a directory listing holds at most MaxListing files

PickStems == {StemRJ, StemSPCapital, StemSPExceto}

PickCalls(stems) ==
    {[files |-> l, stem |-> st] : l \in SeqsUpTo(ListedFiles, MaxListing), st \in stems}

\* _pick_zip_for_stem(dir_url, stem)
PickZipForStem ==
    /\ pickIn # Idle /\ pickOut = Idle
    /\ pickOut' = Done(pick_zip_for_stem(pickIn.files, pickIn.stem))
    /\ UNCHANGED pickIn

(***************************************************************************)
(* Fetch plan: _stems_for_state_2010 and _resolve_target_urls              *)
(***************************************************************************)
STATE_MAP ==
    (11 :> <<"R", "O">>) @@ (12 :> <<"A", "C">>) @@ (13 :> <<"A", "M">>) @@
    (14 :> <<"R", "R">>) @@ (15 :> <<"P", "A">>) @@ (16 :> <<"A", "P">>) @@
    (17 :> <<"T", "O">>) @@ (21 :> <<"M", "A">>) @@ (22 :> <<"P", "I">>) @@
    (23 :> <<"C", "E">>) @@ (24 :> <<"R", "N">>) @@ (25 :> <<"P", "B">>) @@
    (26 :> <<"P", "E">>) @@ (27 :> <<"A", "L">>) @@ (28 :> <<"S", "E">>) @@
    (29 :> <<"B", "A">>) @@ (31 :> <<"M", "G">>) @@ (32 :> <<"E", "S">>) @@
    (33 :> <<"R", "J">>) @@ (35 :> <<"S", "P">>) @@ (41 :> <<"P", "R">>) @@
    (42 :> <<"S", "C">>) @@ (43 :> <<"R", "S">>) @@ (50 :> <<"M", "S">>) @@
    (51 :> <<"M", "T">>) @@ (52 :> <<"G", "O">>) @@ (53 :> <<"D", "F">>)

SP_STATE_CODE   == 35
SP_CAPITAL_MUNI == 3550308

\* str(n) of a non-negative int
RECURSIVE Str(_)
Str(n) ==
    IF n < 10 THEN <<DigitChars[n + 1]>>
    ELSE Str(n \div 10) \o <<DigitChars[(n % 10) + 1]>>

\* int(s) of a string of digits
RECURSIVE ParseInt(_)
ParseInt(str) ==
    IF Len(str) = 1 THEN DigitRank(str[1]) - 1
    ELSE 10 * ParseInt(SubSeq(str, 1, Len(str) - 1)) + DigitRank(str[Len(str)]) - 1

\* s.zfill(width)
RECURSIVE ZFill(_, _)
ZFill(str, width) ==
    IF Len(str) >= width THEN str ELSE ZFill(<<"0">> \o str, width)

\* s[:n]
StrPrefix(str, n) == SubSeq(str, 1, IF Len(str) < n THEN Len(str) ELSE n)

UfSP == <<"S", "P">>

\* A variant of stems_for_state_2010 that always plans both archives.
stems_for_state_2010_both(uf, munis) ==
    IF Upper(uf) # UfSP THEN <<Upper(uf)>> ELSE <<StemSPCapital, StemSPExceto>>

\* _stems_for_state_2010(uf, munis)
stems_for_state_2010(uf, munis) ==
    IF Upper(uf) # UfSP THEN <<Upper(uf)>>
    ELSE LET has_capital == \E i \in 1..Len(munis) : munis[i] = SP_CAPITAL_MUNI
             has_interior ==
                 \E i \in 1..Len(munis) :
                     /\ StartsWith(ZFill(Str(munis[i]), 7), Str(SP_STATE_CODE))
                     /\ munis[i] # SP_CAPITAL_MUNI
         IN (IF has_capital THEN <<StemSPCapital>> ELSE <<>>)
              \o (IF has_interior \/ ~has_capital THEN <<StemSPExceto>> ELSE <<>>)

\* The first loop of _resolve_target_urls: the states the municipalities are in.
RequiredStates(munis) ==
    {STATE_MAP[ParseInt(StrPrefix(Str(munis[i]), 2))] :
        i \in {j \in 1..Len(munis) :
                 ParseInt(StrPrefix(Str(munis[j]), 2)) \in DOMAIN STATE_MAP}}

\* resource.member_glob or "*.csv"
GlobOf(resource) ==
    IF resource.member_glob = "" THEN "*.csv" ELSE resource.member_glob

Target(url, glob, context, resource) ==
    [url |-> url, glob |-> glob, context |-> context, resource |-> resource]

\* The loop over the stems of one state: one target per stem whose archive
\* is found; a stem whose resolution raises is logged and left out.
RECURSIVE StemTargets(_, _, _)
StemTargets(stems, files, resource) ==
    IF stems = <<>> THEN <<>>
    ELSE LET picked == pick_zip_for_stem(files, Head(stems))
             rest == StemTargets(Tail(stems), files, resource)
         IN IF picked.kind = "url"
            THEN <<Target([kind |-> "picked", name |-> picked.name],
                          GlobOf(resource), Head(stems), resource)>> \o rest
            ELSE rest

\* The loop over required_states, a Python set: ufs is one order in which
\* the set may be iterated.
RECURSIVE StateTargets(_, _, _, _, _)
StateTargets(ufs, year, munis, files, resource) ==
    IF ufs = <<>> THEN <<>>
    ELSE LET rest == StateTargets(Tail(ufs), year, munis, files, resource)
         IN IF year = 2010
            THEN StemTargets(stems_for_state_2010(Head(ufs), munis), files, resource)
                    \o rest
            ELSE <<Target([kind |-> "formatted", uf |-> Head(ufs)],
                          GlobOf(resource), Head(ufs), resource)>> \o rest

RECURSIVE ResourceTargets(_, _, _, _, _)
ResourceTargets(resources, ufs, year, munis, files) ==
    IF resources = <<>> THEN <<>>
    ELSE LET resource == Head(resources)
             rest == ResourceTargets(Tail(resources), ufs, year, munis, files)
         IN IF resource.url_template.placeholder
            THEN StateTargets(ufs, year, munis, files, resource) \o rest
            ELSE <<Target([kind |-> "template", file |-> resource.url_template.file],
                          GlobOf(resource), <<"B", "R">>, resource)>> \o rest

\* The stems _pick_zip_for_stem is called with, in the order of the calls.
RECURSIVE StateLookups(_, _)
StateLookups(ufs, munis) ==
    IF ufs = <<>> THEN <<>>
    ELSE [i \in 1..Len(stems_for_state_2010(Head(ufs), munis)) |->
             [uf |-> Head(ufs), stem |-> stems_for_state_2010(Head(ufs), munis)[i]]]
         \o StateLookups(Tail(ufs), munis)

RECURSIVE ResourceLookups(_, _, _, _)
ResourceLookups(resources, ufs, year, munis) ==
    IF resources = <<>> THEN <<>>
    ELSE (IF Head(resources).url_template.placeholder /\ year = 2010
          THEN StateLookups(ufs, munis) ELSE <<>>)
         \o ResourceLookups(Tail(resources), ufs, year, munis)

\* _resolve_target_urls(spec, munis), with the listing of the 2010 directory
\* and the order in which required_states is iterated.
resolve_target_urls(spec, munis, files, ufs) ==
    IF RequiredStates(munis) = {}
    THEN [kind |-> "ValueError"]
    ELSE [kind |-> "plan",
          targets |-> ResourceTargets(spec.ftp_resources, ufs, spec.year, munis, files),
          lookups |-> ResourceLookups(spec.ftp_resources, ufs, spec.year, munis)]

\* The orders in which a set can be iterated
Orders(S) ==
    {o \in [1..Cardinality(S) -> S] : \A i, j \in 1..Cardinality(S) : o[i] = o[j] => i = j}

\* Requested municipalities: the capital of Sao Paulo, two other
\* municipalities of its state (Campinas, Santos), Rio de Janeiro, and a code whose
\* first two digits are no state.
MuniPool == {SP_CAPITAL_MUNI, 3509502, 3548500, 3304557, 9900001}

MaxMunis == 2   \* a request names at most MaxMunis municipalities

PlanListings ==
    {<<>>,
     <<FileRJ2011>>,
     <<FileSPExceto2011>>,
     <<FileRJ2010, FileRJ2011, FileSPCapital2010, FileSPExceto2011>>,
     <<FileSPFuzzyCapital2011, FileSPFuzzyExceto2010, FileRJUndated>>}

FtpSpecs == {CENSUS_CATALOG[i] : i \in {j \in 1..Len(CENSUS_CATALOG) :
                                         CENSUS_CATALOG[j].strategy = "ftp_csv"}}

PlanCalls(specs) ==
    {[spec |-> sp, munis |-> m, files |-> l] :
        sp \in specs, m \in SeqsUpTo(MuniPool, MaxMunis), l \in PlanListings}

\* _resolve_target_urls(spec, munis)
ResolveTargetUrls ==
    /\ planIn # Idle /\ planOut = Idle
    /\ \E ufs \in Orders(RequiredStates(planIn.munis)) :
          planOut' = Done(resolve_target_urls(planIn.spec, planIn.munis,
                                              planIn.files, ufs))
    /\ UNCHANGED planIn

(***************************************************************************)
(* The orchestrator: app/census.py, load_census                            *)
(***************************************************************************)
\* _CATALOG_INDEX once the module is imported
RECURSIVE IndexOfRows(_)
IndexOfRows(n) ==
    IF n = 0 THEN EmptyIndex
    ELSE IndexPut(IndexOfRows(n - 1), CENSUS_CATALOG[n])

CATALOG_INDEX == IndexOfRows(Len(CENSUS_CATALOG))

\* resolve_places_to_ids on numeric places: the codes, each once, in the
\* order of their first occurrence.
RECURSIVE resolve_places_to_ids(_)
resolve_places_to_ids(places) ==
    IF places = <<>> THEN <<>>
    ELSE LET before == resolve_places_to_ids(SubSeq(places, 1, Len(places) - 1))
             code == places[Len(places)]
         IN IF code \in Range(before) THEN before ELSE Append(before, code)

\* The parameters of standardize_census_dataframe, none with a default,
\* and the positional arguments load_census calls it with.
StandardizeParams   == <<"df", "theme", "year", "strategy">>
StandardizeCallArgs == <<"df_raw", "spec">>

\* Python binds positional arguments to parameters in order; a parameter
\* without a default that is left unbound makes the call raise TypeError.
CallBinds(args, params) == Len(args) = Len(params)

NoOutcome == [kind |-> "none", theme |-> "", themes |-> <<>>, rows |-> FALSE]
Raised(error, theme) ==
    [kind |-> error, theme |-> theme, themes |-> <<>>, rows |-> FALSE]
Returned(themes) ==
    [kind |-> "table", theme |-> "", themes |-> themes, rows |-> TRUE]

MaxThemes == 2   \* a request names at most MaxThemes themes

LoadYears      == {2010, 2022}
LoadStrategies == {"bd_table", "ftp_csv"}
LoadPlaces     == {3304557, SP_CAPITAL_MUNI}
FetchResults   == {"rows", "empty", "raise"}

ThemesArgs(themes) ==
    {[given |-> FALSE, list |-> <<>>]}
        \cup {[given |-> TRUE, list |-> l] : l \in SeqsUpTo(themes, MaxThemes)}

LoadCalls(themes) ==
    {[state |-> "run", pc |-> "resolve", places |-> pl, themesArg |-> th,
      year |-> y, strategy |-> st, munis |-> <<>>, todo |-> <<>>,
      merged |-> <<>>, mergedRows |-> FALSE, fetched |-> <<>>,
      outcome |-> NoOutcome] :
        pl \in SeqsUpTo(LoadPlaces, MaxMunis), th \in ThemesArgs(themes),
        y \in LoadYears, st \in LoadStrategies}

\* load_census, lines 50-61: the default themes and the resolution of places
LcResolvePlaces ==
    /\ lc # Idle /\ lc.pc = "resolve"
    /\ LET themes == IF lc.themesArg.given THEN lc.themesArg.list ELSE <<"basic">>
           muni_ids == resolve_places_to_ids(lc.places)
       IN IF muni_ids = <<>>
          THEN lc' = [lc EXCEPT !.pc = "raised",
                                !.outcome = Raised("ValueError", "")]
          ELSE lc' = [lc EXCEPT !.pc = "themes", !.munis = muni_ids,
                                !.todo = themes]

\* load_census, lines 68-112: one pass of the loop over the themes. The
\* fetch is the environment's: it returns rows, returns no row, or raises.
LcLoadTheme ==
    /\ lc # Idle /\ lc.pc = "themes" /\ lc.todo # <<>>
    /\ LET theme == Head(lc.todo)
           found == get_census_spec(CATALOG_INDEX, lc.year, theme, lc.strategy)
       IN IF found.kind = "ValueError"
          THEN lc' = [lc EXCEPT !.pc = "raised",
                                !.outcome = Raised("ValueError", theme)]
          ELSE \E fetch \in FetchResults :
                 IF fetch = "raise"
                 THEN lc' = [lc EXCEPT !.pc = "raised",
                                       !.fetched = Append(@, fetch),
                                       !.outcome = Raised("FetchError", theme)]
                 ELSE IF ~CallBinds(StandardizeCallArgs, StandardizeParams)
                 THEN lc' = [lc EXCEPT !.pc = "raised",
                                       !.fetched = Append(@, fetch),
                                       !.outcome = Raised("TypeError", theme)]
                 ELSE lc' = [lc EXCEPT !.todo = Tail(@),
                                       !.fetched = Append(@, fetch),
                                       !.merged = Append(@, theme),
                                       !.mergedRows = @ \/ fetch = "rows"]

\* load_census, lines 114-189 with geometry="tract": the merged table is
\* joined onto the tract geometries, which hold the tracts of the data or
\* none of them.
LcFinish ==
    /\ lc # Idle /\ lc.pc = "themes" /\ lc.todo = <<>>
    /\ IF ~lc.mergedRows
       THEN lc' = [lc EXCEPT !.pc = "raised",
                             !.outcome = Raised("RuntimeError", "")]
       ELSE \E tractsMatch \in BOOLEAN :
              IF tractsMatch
              THEN lc' = [lc EXCEPT !.pc = "returned",
                                    !.outcome = Returned(lc.merged)]
              ELSE lc' = [lc EXCEPT !.pc = "raised",
                                    !.outcome = Raised("RuntimeError", "")]

(***************************************************************************)
(* The archive adapter: infra/adapters/census_ftp.py, fetch_census_ftp     *)
(* Column names and tract ids are strings, kept as sequences of their      *)
(* characters.                                                             *)
(***************************************************************************)
\* str.strip() for blanks
RECURSIVE Strip(_)
Strip(str) ==
    IF str = <<>> THEN str
    ELSE IF Head(str) = " " THEN Strip(Tail(str))
    ELSE IF str[Len(str)] = " " THEN Strip(SubSeq(str, 1, Len(str) - 1))
    ELSE str

ID_SETOR ==
    <<"i", "d", "_", "s", "e", "t", "o", "r", "_",
      "c", "e", "n", "s", "i", "t", "a", "r", "i", "o">>
HABITANTES == <<"h", "a", "b", "i", "t", "a", "n", "t", "e", "s">>
RENDIMENTO_MEDIO ==
    <<"r", "e", "n", "d", "i", "m", "e", "n", "t", "o", "_", "m", "e", "d", "i", "o">>
Cod_setor == <<"C", "o", "d", "_", "s", "e", "t", "o", "r">>
CD_SETOR  == <<"C", "D", "_", "S", "E", "T", "O", "R">>
ColV002   == <<"V", "0", "0", "2">>
ColV005   == <<"V", "0", "0", "5">>
ColV06004 == <<"V", "0", "6", "0", "0", "4">>

\* spec.column_map of the catalog rows of the archive strategy the model
\* fetches: pairs (raw name, canonical name), in the order of the dict.
ColumnMapOf(spec) ==
    IF spec.theme = "basic" /\ spec.year = 2010
    THEN << <<Cod_setor, ID_SETOR>>, <<ColV002, HABITANTES>> >>
    ELSE IF spec.theme = "income" /\ spec.year = 2010
    THEN << <<Cod_setor, ID_SETOR>>, <<ColV005, RENDIMENTO_MEDIO>> >>
    ELSE IF spec.theme = "income" /\ spec.year = 2022
    THEN << <<CD_SETOR, ID_SETOR>>, <<ColV06004, RENDIMENTO_MEDIO>> >>
    ELSE << <<CD_SETOR, ID_SETOR>> >>

\* f"{prefix}{i:0{width}d}"
ColStr(prefix, i, width) == <<prefix>> \o ZFill(Str(i), width)

\* spec.required_columns of the catalog rows of the archive strategy the
\* model fetches: only the age row of 2022 declares any.
RequiredColumnsOf(spec) ==
    IF spec.theme = "age" /\ spec.year = 2022
    THEN [i \in 1..8 |-> ColStr("V", 644 + 5 * (i - 1), 5)]
    ELSE <<>>

\* FtpResourceSpec.id_col of the catalog rows
IdColOf(resource) ==
    IF resource.id_col = "Cod_setor" THEN Cod_setor ELSE CD_SETOR

FetchSpecs ==
    {CENSUS_CATALOG[i] : i \in {j \in 1..Len(CENSUS_CATALOG) :
        /\ CENSUS_CATALOG[j].strategy = "ftp_csv"
        /\ \/ CENSUS_CATALOG[j].theme \in {"basic", "income"} /\ CENSUS_CATALOG[j].year = 2010
           \/ CENSUS_CATALOG[j].theme \in {"income", "age"} /\ CENSUS_CATALOG[j].year = 2022}}

\* load_cols: the keys of column_map, then the id column of every resource
\* that is not among them; None (here the empty list) without a column_map.
RECURSIVE AppendIdCols(_, _)
AppendIdCols(cols, resources) ==
    IF resources = <<>> THEN cols
    ELSE AppendIdCols(
            IF IdColOf(Head(resources)) \in Range(cols) THEN cols
            ELSE Append(cols, IdColOf(Head(resources))),
            Tail(resources))

LoadCols(spec) ==
    IF ColumnMapOf(spec) = <<>> THEN <<>>
    ELSE AppendIdCols([i \in 1..Len(ColumnMapOf(spec)) |-> ColumnMapOf(spec)[i][1]],
                      spec.ftp_resources)

\* header_map = {str(c).strip().lower(): c for c in header}: the header
\* column a key is bound to is the last one with that key.
HeaderKey(c) == Lower(Strip(c))
HeaderHas(header, key) == \E i \in 1..Len(header) : HeaderKey(header[i]) = key
HeaderGet(header, key) ==
    header[CHOOSE i \in 1..Len(header) :
              /\ HeaderKey(header[i]) = key
              /\ \A j \in (i + 1)..Len(header) : HeaderKey(header[j]) # key]

\* The loop of _resolve_usecols over the desired columns
RECURSIVE ResolvedCols(_, _, _)
ResolvedCols(header, desired, resolved) ==
    IF desired = <<>> THEN resolved
    ELSE LET key == HeaderKey(Head(desired))
         IN IF ~HeaderHas(header, key)
            THEN ResolvedCols(header, Tail(desired), resolved)
            ELSE IF HeaderGet(header, key) \in Range(resolved)
            THEN ResolvedCols(header, Tail(desired), resolved)
            ELSE ResolvedCols(header, Tail(desired),
                              Append(resolved, HeaderGet(header, key)))

\* _resolve_usecols(zf, member, desired): the header columns to read, or
\* None (here the empty list) when nothing is desired or nothing resolved.
resolve_usecols(header, desired) ==
    IF desired = <<>> THEN <<>> ELSE ResolvedCols(header, desired, <<>>)

\* The desired columns _resolve_usecols warns about
MissingCols(header, desired) ==
    {desired[i] : i \in {j \in 1..Len(desired) : ~HeaderHas(header, HeaderKey(desired[j]))}}

\* pd.read_csv(..., usecols=usecols): the columns read, in header order;
\* all of them when usecols is None.
RECURSIVE KeepIn(_, _)
KeepIn(seq, keep) ==
    IF seq = <<>> THEN <<>>
    ELSE (IF Head(seq) \in keep THEN <<Head(seq)>> ELSE <<>>)
            \o KeepIn(Tail(seq), keep)

ReadColumns(header, usecols) ==
    IF usecols = <<>> THEN header ELSE KeepIn(header, Range(usecols))

\* df.rename(columns=spec.column_map): a column whose name is a key of the
\* map takes the canonical name; the match is exact.
RenameCol(c, columnMap) ==
    IF \E i \in 1..Len(columnMap) : columnMap[i][1] = c
    THEN columnMap[CHOOSE i \in 1..Len(columnMap) : columnMap[i][1] = c][2]
    ELSE c
RenameCols(cols, columnMap) == [i \in 1..Len(cols) |-> RenameCol(cols[i], columnMap)]

\* .astype(str).str.strip().str.zfill(15)
StandardId(raw) == ZFill(Strip(raw), 15)

\* {str(m).zfill(7) for m in munis}
StrMunis(munis) == {ZFill(Str(munis[i]), 7) : i \in 1..Len(munis)}

\* A row of a table the adapter returns: its index value when the table is
\* indexed by id_setor_censitario.
IndexedRow(id) == [indexed |-> TRUE, id |-> id]
PlainRow == [indexed |-> FALSE, id |-> <<>>]

NoChunk == [cols |-> {}, rows |-> <<>>]

\* Lines 280-336 of fetch_census_ftp on one member: the chunk appended to
\* dfs, or NoChunk when the chunk is empty. The member's first header
\* column with key cod_setor or cd_setor holds its rows' raw ids.
ParseMember(spec, munis, header, ids) ==
    LET usecols == resolve_usecols(header, LoadCols(spec))
        read == ReadColumns(header, usecols)
        renamed == IF ColumnMapOf(spec) # <<>>
                   THEN RenameCols(read, ColumnMapOf(spec)) ELSE read
        hasId == ID_SETOR \in Range(renamed)
        kept == KeepIn([i \in 1..Len(ids) |-> StandardId(ids[i])],
                          {id \in {StandardId(ids[i]) : i \in 1..Len(ids)} :
                              SubSeq(id, 1, 7) \in StrMunis(munis)})
        cols == IF hasId THEN Range(renamed) \ {ID_SETOR} ELSE Range(renamed)
        rows == IF hasId THEN [i \in 1..Len(kept) |-> IndexedRow(kept[i])]
                ELSE [i \in 1..Len(ids) |-> PlainRow]
    IN IF cols = {} \/ rows = <<>> THEN NoChunk ELSE [cols |-> cols, rows |-> rows]

\* What an archive of the plan turns out to be: it cannot be downloaded or
\* opened, it holds no member matching the glob, or it holds one member.
ArchiveFails    == [kind |-> "fail", header |-> <<>>, ids |-> <<>>]
ArchiveNoMember == [kind |-> "nomember", header |-> <<>>, ids |-> <<>>]
ArchiveMember(header, ids) == [kind |-> "member", header |-> header, ids |-> ids]

\* Lines 259-347 of fetch_census_ftp on one target of the plan
ChunkOf(spec, munis, archive) ==
    IF archive.kind = "member"
    THEN ParseMember(spec, munis, archive.header, archive.ids)
    ELSE NoChunk

\* pd.concat(dfs)
RECURSIVE ConcatRows(_)
ConcatRows(dfs) ==
    IF dfs = <<>> THEN <<>> ELSE Head(dfs).rows \o ConcatRows(Tail(dfs))
Concat(dfs) ==
    [kind |-> "table",
     cols |-> UNION {dfs[i].cols : i \in 1..Len(dfs)},
     rows |-> ConcatRows(dfs)]
EmptyDataFrame == [kind |-> "table", cols |-> {}, rows |-> <<>>]
FetchRaised(error) == [kind |-> error, cols |-> {}, rows |-> <<>>]
NoResult == [kind |-> "none", cols |-> {}, rows |-> <<>>]

\* The member headers and raw ids the archives of the model hold.
ColLixo     == <<"L", "i", "x", "o">>
ColCodUpper == <<"C", "O", "D", "_", "S", "E", "T", "O", "R">>
ColV002Lower == <<"v", "0", "0", "2">>
MemberHeaders ==
    {<<Cod_setor, ColV002, ColV005, ColLixo>>,
     <<ColCodUpper, ColV002Lower>>,
     <<CD_SETOR, ColV06004>>,
     <<CD_SETOR, ColStr("V", 644, 5)>>,
     <<Cod_setor>>,
     <<ColV002>>,
     <<ColLixo>>}

RawIdRio   == <<"3", "3", "0", "4", "5", "5", "7", "0", "5", "0", "0", "0", "0", "0", "1">>
RawIdSP    == <<"3", "5", "5", "0", "3", "0", "8", "0", "1", "0", "0", "0", "0", "0", "1">>
RawIdShort == <<" ", "1", "2", "3">>
RawIdLong  == RawIdRio \o <<"P">>
MemberIds ==
    {<<>>, <<RawIdRio>>, <<RawIdRio, RawIdSP>>, <<RawIdShort>>, <<RawIdLong, RawIdRio>>}

ArchiveOutcomes ==
    {ArchiveFails, ArchiveNoMember}
        \cup {ArchiveMember(h, ids) : h \in MemberHeaders, ids \in MemberIds}

FetchRequests ==
    {<<3304557>>, <<SP_CAPITAL_MUNI, 3304557>>, <<9900001>>, <<SP_CAPITAL_MUNI, 3509502>>}
FetchListings ==
    {<<>>, <<FileRJ2010, FileRJ2011, FileSPCapital2010, FileSPExceto2011>>}

FetchCalls(specs) ==
    {[state |-> "run", pc |-> "plan", spec |-> sp, munis |-> m, files |-> l,
      todo |-> <<>>, planned |-> 0, archives |-> <<>>, dfs |-> <<>>,
      result |-> NoResult] :
        sp \in specs, m \in FetchRequests, l \in FetchListings}

\* fetch_census_ftp, line 246: the fetch plan
FtPlan ==
    /\ ft # Idle /\ ft.pc = "plan"
    /\ \E ufs \in Orders(RequiredStates(ft.munis)) :
         LET plan == resolve_target_urls(ft.spec, ft.munis, ft.files, ufs)
         IN IF plan.kind = "ValueError"
            THEN ft' = [ft EXCEPT !.pc = "raised", !.result = FetchRaised("ValueError")]
            ELSE ft' = [ft EXCEPT !.pc = "fetch", !.todo = plan.targets,
                                  !.planned = Len(plan.targets)]

\* fetch_census_ftp, lines 259-347: one pass of the loop over the plan
FtArchive ==
    /\ ft # Idle /\ ft.pc = "fetch" /\ ft.todo # <<>>
    /\ \E archive \in ArchiveOutcomes :
         LET chunk == ChunkOf(ft.spec, ft.munis, archive)
         IN ft' = [ft EXCEPT !.todo = Tail(@),
                             !.archives = Append(@, archive),
                             !.dfs = IF chunk = NoChunk THEN @ ELSE Append(@, chunk)]

\* fetch_census_ftp, lines 349-353
FtReturn ==
    /\ ft # Idle /\ ft.pc = "fetch" /\ ft.todo = <<>>
    /\ ft' = [ft EXCEPT !.pc = "returned",
                        !.result = IF ft.dfs = <<>> THEN EmptyDataFrame
                                   ELSE Concat(ft.dfs)]

(***************************************************************************)
(* The urban mask: core/geo/ops.py, create_urban_mask and clip_to_mask     *)
(* A geometry is the set of the grid points it covers (the empty set is    *)
(* the empty geometry); a coordinate reference system is a label, and a    *)
(* reprojection moves every point by the offset between the two systems.   *)
(***************************************************************************)
GEOMETRY == "geometry"
CrsGeographic == "EPSG:4674"
CrsUtm == "EPSG:31983"
CrsUtm24 == "EPSG:31984"
CrsNone == "none"

CrsOrigin(crs) ==
    IF crs = CrsUtm THEN <<1, 0>>
    ELSE IF crs = CrsUtm24 THEN <<2, 0>>
    ELSE <<0, 0>>

\* GeoSeries.to_crs for one geometry
ProjectGeom(geom, from, to) ==
    {<<c[1] + CrsOrigin(to)[1] - CrsOrigin(from)[1],
       c[2] + CrsOrigin(to)[2] - CrsOrigin(from)[2]>> : c \in geom}

\* GeoDataFrame.to_crs: every geometry is reprojected, the rest is kept
to_crs(gdf, crs) ==
    [gdf EXCEPT !.crs = crs,
                !.rows = [i \in 1..Len(gdf.rows) |->
                            [gdf.rows[i] EXCEPT !.geom = ProjectGeom(@, gdf.crs, crs)]]]

\* shapely box(minx, miny, maxx, maxy) for bbox = (minx, miny, maxx, maxy)
BoxOf(bbox) == {<<x, y>> : x \in bbox[1]..bbox[3], y \in bbox[2]..bbox[4]}

\* gdf.cx[minx:maxx, miny:maxy]: the rows whose geometry intersects the box
Cx(gdf, bbox) ==
    [gdf EXCEPT !.rows = SelectSeq(gdf.rows, LAMBDA r : r.geom \cap BoxOf(bbox) # {})]

\* DataFrame.empty: no row or no column
IsEmpty(gdf) == gdf.rows = <<>> \/ gdf.cols = {}

\* GeoSeries.unary_union
UnaryUnion(gdf) == UNION {gdf.rows[i].geom : i \in 1..Len(gdf.rows)}

\* geometry.buffer(500): the geometry and the margin around it
Buffer(geom) ==
    UNION {{<<c[1] + dx, c[2] + dy>> : dx \in {-1, 0, 1}, dy \in {-1, 0, 1}} : c \in geom}

\* gpd.GeoDataFrame({"geometry": geoms}, crs=target_crs)
MaskFrame(geoms, crs) ==
    [crs |-> crs, cols |-> {GEOMETRY},
     rows |-> [i \in 1..Len(geoms) |-> [id |-> 0, geom |-> geoms[i]]]]

\* A variant of create_urban_mask without the two emptiness tests
create_urban_mask_unguarded(urban_gdf, bbox, target_crs) ==
    LET projected == IF urban_gdf.crs = target_crs THEN urban_gdf
                     ELSE to_crs(urban_gdf, target_crs)
    IN MaskFrame(<<Buffer(UnaryUnion(Cx(projected, bbox)))>>, target_crs)

create_urban_mask(urban_gdf, bbox, target_crs) ==
    LET projected == IF urban_gdf.crs = target_crs THEN urban_gdf
                     ELSE to_crs(urban_gdf, target_crs)
        urban_slice == Cx(projected, bbox)
        union_geom == UnaryUnion(urban_slice)
    IN IF IsEmpty(urban_slice) THEN MaskFrame(<<>>, target_crs)
       ELSE IF union_geom = {} THEN MaskFrame(<<>>, target_crs)
       ELSE MaskFrame(<<Buffer(union_geom)>>, target_crs)

\* gpd.clip(gdf, mask, keep_geom_type=True): the rows that meet the mask,
\* each cut to the mask
Clip(gdf, mask) ==
    LET area == UnaryUnion(mask)
        cut == [i \in 1..Len(gdf.rows) |->
                  [gdf.rows[i] EXCEPT !.geom = @ \cap area]]
    IN [gdf EXCEPT !.rows = SelectSeq(cut, LAMBDA r : r.geom # {})]

ClipRaised == [crs |-> CrsNone, cols |-> {}, rows |-> <<>>, error |-> "ValueError"]
ClipReturned(gdf) ==
    [crs |-> gdf.crs, cols |-> gdf.cols, rows |-> gdf.rows, error |-> "none"]

\* A variant of clip_to_mask without the test of an empty mask
clip_to_mask_unguarded(gdf, mask) ==
    IF mask.crs # gdf.crs /\ gdf.crs = CrsNone THEN ClipRaised
    ELSE ClipReturned(Clip(gdf, IF mask.crs # gdf.crs THEN to_crs(mask, gdf.crs) ELSE mask))

\* clip_to_mask; mask.to_crs(None) raises
clip_to_mask(gdf, mask) ==
    IF IsEmpty(mask) THEN ClipReturned([gdf EXCEPT !.rows = <<>>])
    ELSE IF mask.crs # gdf.crs /\ gdf.crs = CrsNone THEN ClipRaised
    ELSE ClipReturned(Clip(gdf, IF mask.crs # gdf.crs THEN to_crs(mask, gdf.crs) ELSE mask))

MaxPolys == 2   \* a footprint table holds at most MaxPolys polygons

GridCoords == {0, 1}
Boxes == {b \in GridCoords \X GridCoords \X GridCoords \X GridCoords :
             b[1] <= b[3] /\ b[2] <= b[4]}
\* The footprint geometries: every box of the grid and the empty geometry
Geometries(boxes) == {BoxOf(b) : b \in boxes} \cup {{}}

FootprintTables(boxes) ==
    {[crs |-> crs, cols |-> {GEOMETRY, "name"},
      rows |-> [i \in 1..Len(geoms) |-> [id |-> 0, geom |-> geoms[i]]]] :
        crs \in {CrsGeographic, CrsUtm},
        geoms \in SeqsUpTo(Geometries(boxes), MaxPolys)}

TractTables ==
    {[crs |-> crs, cols |-> cols, rows |-> rows] :
        crs \in {CrsUtm, CrsNone},
        cols \in {{GEOMETRY}, {GEOMETRY, "habitantes"}},
        rows \in {<<>>,
                  <<[id |-> 1, geom |-> BoxOf(<<1, 0, 1, 0>>)],
                    [id |-> 2, geom |-> BoxOf(<<2, 0, 3, 1>>)]>>}}

MaskCalls(boxes) ==
    {[state |-> "run", pc |-> "mask", urban |-> u, bbox |-> b, target |-> t,
      tracts |-> g, mask |-> MaskFrame(<<>>, CrsNone), clipped |-> ClipRaised] :
        u \in FootprintTables(boxes), b \in boxes,
        t \in {CrsGeographic, CrsUtm}, g \in TractTables}

MkCreateMask ==
    /\ mk # Idle /\ mk.pc = "mask"
    /\ mk' = [mk EXCEPT !.pc = "clip",
                        !.mask = create_urban_mask(mk.urban, mk.bbox, mk.target)]

MkClip ==
    /\ mk # Idle /\ mk.pc = "clip"
    /\ mk' = [mk EXCEPT !.pc = "done",
                        !.clipped = clip_to_mask(mk.tracts, mk.mask)]

(***************************************************************************)
(* Tract preparation: core/geo/ops.py, prepare_tracts, with to_local_utm   *)
(* and clean_geometries of core/geo/utils.py                               *)
(* A row holds its index value, the value of its code_tract column, the    *)
(* value of its id_setor_censitario column and its geometry; a column the  *)
(* table does not have holds the empty string. A geometry is null, or a    *)
(* set of grid points that is valid or not.                                *)
(***************************************************************************)
CODE_TRACT == "code_tract"
ID_SETOR_COL == "id_setor_censitario"
DefaultIndex == "RangeIndex"

NullGeom == [null |-> TRUE, valid |-> FALSE, cells |-> {}]
Polygon(cells, valid) == [null |-> FALSE, valid |-> valid, cells |-> cells]

\* Series.str.replace(r'\.0$', '', regex=True)
StripDotZero(str) ==
    IF Len(str) >= 2 /\ str[Len(str) - 1] = "." /\ str[Len(str)] = "0"
    THEN SubSeq(str, 1, Len(str) - 2)
    ELSE str

\* gdf["id_setor_censitario"] = gdf["code_tract"] as a 15-character string
WithTractId(gdf) ==
    [gdf EXCEPT !.cols = @ \cup {ID_SETOR_COL},
                !.rows = [i \in 1..Len(gdf.rows) |->
                            [gdf.rows[i] EXCEPT
                                !.sid = ZFill(StripDotZero(gdf.rows[i].raw), 15)]]]

AllNull(gdf) == \A i \in 1..Len(gdf.rows) : gdf.rows[i].geom.null

\* The x coordinates the geometries of the table cover (total_bounds)
BoundsX(gdf) ==
    UNION {{c[1] : c \in gdf.rows[i].geom.cells} : i \in 1..Len(gdf.rows)}
MinOf(S) == CHOOSE x \in S : \A y \in S : x <= y
MaxOf(S) == CHOOSE x \in S : \A y \in S : x >= y

\* A variant of estimate_utm_crs that reads the coordinates as longitudes
\* whatever the system of the table.
estimate_utm_crs_raw(gdf) ==
    IF (MinOf(BoundsX(gdf)) + MaxOf(BoundsX(gdf))) \div 2 >= 2
    THEN CrsUtm24 ELSE CrsUtm

\* gdf.estimate_utm_crs(datum_name="SIRGAS 2000"): the zone of the centre
\* of the bounds, taken in geographic coordinates.
estimate_utm_crs(gdf) ==
    IF (MinOf(BoundsX(gdf)) + MaxOf(BoundsX(gdf))) \div 2
            - CrsOrigin(gdf.crs)[1] >= 2
    THEN CrsUtm24 ELSE CrsUtm

\* GeoDataFrame.to_crs on a table of tracts
TractsToCrs(gdf, crs) ==
    [gdf EXCEPT !.crs = crs,
                !.rows = [i \in 1..Len(gdf.rows) |->
                            [gdf.rows[i] EXCEPT
                                !.geom.cells = ProjectGeom(@, gdf.crs, crs)]]]

\* to_local_utm, for a table with a coordinate reference system
to_local_utm(gdf) ==
    IF IsEmpty(gdf) \/ AllNull(gdf) THEN gdf
    ELSE TractsToCrs(gdf, estimate_utm_crs(gdf))

\* geometry.buffer(0) on one invalid geometry
BufferZero(geom) == IF geom.null THEN geom ELSE [geom EXCEPT !.valid = TRUE]

clean_geometries(gdf) ==
    IF IsEmpty(gdf) THEN gdf
    ELSE [gdf EXCEPT !.rows = [i \in 1..Len(gdf.rows) |->
                                 IF gdf.rows[i].geom.valid THEN gdf.rows[i]
                                 ELSE [gdf.rows[i] EXCEPT !.geom = BufferZero(@)]]]

\* gdf[["geometry"]]: the other columns are dropped, the index is kept
GeometryOnly(gdf) ==
    [gdf EXCEPT !.cols = {GEOMETRY},
                !.rows = [i \in 1..Len(gdf.rows) |->
                            [gdf.rows[i] EXCEPT !.raw = <<>>, !.sid = <<>>]]]

\* gdf.set_index("id_setor_censitario")
SetIndexId(gdf) ==
    [gdf EXCEPT !.index = ID_SETOR_COL,
                !.cols = @ \ {ID_SETOR_COL},
                !.rows = [i \in 1..Len(gdf.rows) |->
                            [gdf.rows[i] EXCEPT !.idx = gdf.rows[i].sid, !.sid = <<>>]]]

PrepareRaised(error) ==
    [kind |-> error, crs |-> CrsNone, index |-> DefaultIndex, cols |-> {}, rows |-> <<>>]

\* prepare_tracts; estimate_utm_crs raises on a table without a coordinate
\* reference system.
prepare_tracts(raw_tracts) ==
    LET withId == IF CODE_TRACT \in raw_tracts.cols THEN WithTractId(raw_tracts)
                  ELSE raw_tracts
    IN IF withId.crs = CrsNone /\ ~(IsEmpty(withId) \/ AllNull(withId))
       THEN PrepareRaised("RuntimeError")
       ELSE LET gdf == clean_geometries(to_local_utm(withId))
            IN IF ID_SETOR_COL \in gdf.cols
               THEN GeometryOnly(SetIndexId(gdf))
               ELSE GeometryOnly(gdf)

MaxTracts == 2   \* a raw tract table holds at most MaxTracts rows

RawIdFloat == RawIdRio \o <<".", "0">>
RawIdDigits == <<"1", "2", "3">>
TractGeometries ==
    {NullGeom,
     Polygon(BoxOf(<<0, 0, 1, 1>>), TRUE),
     Polygon(BoxOf(<<1, 0, 1, 0>>), FALSE),
     Polygon(BoxOf(<<2, 0, 3, 1>>), TRUE)}

\* The rows of a raw table with the given columns
RawRows(cols, codes) ==
    {[idx |-> <<"0">>,
      raw |-> IF CODE_TRACT \in cols THEN c ELSE <<>>,
      sid |-> IF ID_SETOR_COL \in cols THEN RawIdSP ELSE <<>>,
      geom |-> g] : c \in codes, g \in TractGeometries}

RawTables(codes) ==
    UNION {{[kind |-> "table", crs |-> crs, index |-> DefaultIndex,
             cols |-> cols, rows |-> rows] :
                crs \in {CrsGeographic, CrsUtm, CrsUtm24, CrsNone},
                rows \in SeqsUpTo(RawRows(cols, codes), MaxTracts)} :
           cols \in {{GEOMETRY}, {GEOMETRY, CODE_TRACT, "name_muni"},
                     {GEOMETRY, ID_SETOR_COL},
                     {GEOMETRY, CODE_TRACT, ID_SETOR_COL}}}

PrepareCalls(codes) ==
    {[state |-> "run", pc |-> "first", raw |-> x,
      once |-> PrepareRaised("none"), twice |-> PrepareRaised("none")] :
        x \in RawTables(codes)}

\* prepare_tracts(x)
PtPrepare ==
    /\ pt # Idle /\ pt.pc = "first"
    /\ pt' = [pt EXCEPT !.pc = "second", !.once = prepare_tracts(pt.raw)]

\* prepare_tracts on the table the first call returned
PtPrepareAgain ==
    /\ pt # Idle /\ pt.pc = "second" /\ pt.once.kind = "table"
    /\ pt' = [pt EXCEPT !.pc = "done", !.twice = prepare_tracts(pt.once)]

(***************************************************************************)
(* Harmonization dispatch: core/logic/census.py, _HANDLERS and             *)
(* standardize_census_dataframe, with the handlers that only rename        *)
(***************************************************************************)
\* DataFrame.rename(columns=mapping) on one row; mapping is a function from
\* the names it renames to their new names.
RenamedName(c, mapping) == IF c \in DOMAIN mapping THEN mapping[c] ELSE c
RenameRow(row, mapping) ==
    [n \in {RenamedName(c, mapping) : c \in DOMAIN row} |->
        row[CHOOSE c \in DOMAIN row : RenamedName(c, mapping) = n]]
RenameTable(df, mapping) == [id \in DOMAIN df |-> RenameRow(df[id], mapping)]

handle_basic_2010(df, strategy) ==
    RenameTable(df, (ColName("v", 2, 3) :> Named("habitantes"))
                        @@ (ColName("v", 1, 3) :> Named("domicilios")))

handle_income_2010(df, strategy) ==
    RenameTable(df, ColName("v", 9, 3) :> Named("rendimento_medio"))

handle_race_2010(df, strategy) ==
    LET mapping == [c \in {ColName("v", i + 1, 3) : i \in 1..5} |->
                       Named(CorName[CENSO_RACES[c[2] - 1]])]
        renamed == RenameTable(df, mapping)
    IN SelectCols(renamed, {mapping[c] : c \in DOMAIN mapping} \cap ColumnsOf(renamed))

handle_basic_2022(df, strategy) ==
    IF strategy = "bd_table"
    THEN RenameTable(df, Named("pessoas") :> Named("habitantes"))
    ELSE df

handle_income_2022(df, strategy) == df

\* _HANDLERS: the registered (theme, year) keys and their handlers
HANDLERS ==
    (<<"basic", 2010>> :> "_handle_basic_2010") @@
    (<<"basic", 2022>> :> "_handle_basic_2022") @@
    (<<"income", 2010>> :> "_handle_income_2010") @@
    (<<"income", 2022>> :> "_handle_income_2022") @@
    (<<"race", 2010>> :> "_handle_race_2010") @@
    (<<"race", 2022>> :> "_handle_race_2022") @@
    (<<"age", 2010>> :> "_handle_age_2010") @@
    (<<"age", 2022>> :> "_handle_age_2022")

\* handler(df, strategy); the age handlers work row by row
CallHandler(handler, df, strategy) ==
    CASE handler = "_handle_basic_2010" -> handle_basic_2010(df, strategy)
      [] handler = "_handle_basic_2022" -> handle_basic_2022(df, strategy)
      [] handler = "_handle_income_2010" -> handle_income_2010(df, strategy)
      [] handler = "_handle_income_2022" -> handle_income_2022(df, strategy)
      [] handler = "_handle_race_2010" -> handle_race_2010(df, strategy)
      [] handler = "_handle_race_2022" -> handle_race_2022(df, strategy)
      [] handler = "_handle_age_2010" ->
            [id \in DOMAIN df |-> handle_age_2010(df[id], strategy)]
      [] handler = "_handle_age_2022" ->
            [id \in DOMAIN df |-> handle_age_2022(df[id], strategy)]

\* A variant of standardize_census_dataframe that falls back to the 2010
\* handler of the theme when the year has none.
standardize_census_dataframe_fallback(df, theme, year, strategy) ==
    IF <<theme, year>> \in DOMAIN HANDLERS
    THEN CallHandler(HANDLERS[<<theme, year>>], df, strategy)
    ELSE IF <<theme, 2010>> \in DOMAIN HANDLERS
    THEN CallHandler(HANDLERS[<<theme, 2010>>], df, strategy)
    ELSE df

standardize_census_dataframe(df, theme, year, strategy) ==
    IF <<theme, year>> \in DOMAIN HANDLERS
    THEN CallHandler(HANDLERS[<<theme, year>>], df, strategy)
    ELSE df

\* The calls the model makes: registered and unregistered themes and
\* years, known and unknown strategies, one-sector tables over raw columns.
DispatchThemes == {"basic", "income", "race", "age", "education"}
DispatchYears == {2000, 2010, 2022}
DispatchStrategies == {"bd_table", "ftp_csv", "api"}
DispatchCols ==
    {ColName("v", 2, 3), ColName("v", 9, 3), ColName("V", 644, 5), Named("pessoas")}

DispatchCalls(themes) ==
    {[state |-> "run", pc |-> "call", theme |-> t, year |-> y, strategy |-> st,
      df |-> [id \in {SectorA1} |-> row], out |-> <<>>] :
        t \in themes, y \in DispatchYears, st \in DispatchStrategies,
        row \in TablesOver(DispatchCols)}

StandardizeCensusDataframe ==
    /\ sd # Idle /\ sd.pc = "call"
    /\ sd' = [sd EXCEPT !.pc = "done",
                        !.out = standardize_census_dataframe(
                                    sd.df, sd.theme, sd.year, sd.strategy)]

(***************************************************************************)
(* The disk cache: infra/storage/cache.py, cached_download                 *)
(* A path is a stem and a suffix. A file holds the chunks written so far   *)
(* of one response; the responses are numbered, and lens gives the number  *)
(* of chunks of each one's body. The final paths are the ones the callers  *)
(* build, with the suffix .zip or .html.                                   *)
(***************************************************************************)
MaxChunks == 2   \* a response body has at most MaxChunks chunks
MaxCalls  == 3   \* cached_download is called at most MaxCalls times

Absent == [present |-> FALSE, resp |-> 0, n |-> 0]
File(resp, n) == [present |-> TRUE, resp |-> resp, n |-> n]

\* A variant of Path.with_suffix that keeps the path: the body is written
\* in place.
with_suffix_same(path, suffix) == path

\* Path.with_suffix
with_suffix(path, suffix) == [path EXCEPT !.suffix = suffix]

OutPath == [stem |-> "cache/ibge/census/3f2a", suffix |-> ".zip"]
CachePaths == {OutPath, with_suffix(OutPath, ".tmp")}

\* temp_out = out.with_suffix(".tmp")
TempOut == with_suffix(dl.out, ".tmp")

\* The cache before the first call: the final file is absent or holds the
\* whole body of an earlier response, and an earlier run may have left a
\* partial temporary file.
DownloadStarts ==
    {[state |-> "run", pc |-> "idle", out |-> OutPath, force |-> FALSE,
      fs |-> [p \in CachePaths |->
                 IF p = OutPath THEN final
                 ELSE IF stale THEN File(1, 0) ELSE Absent],
      lens |-> <<MaxChunks>>, calls |-> 0, downloads |-> 0,
      startFinal |-> Absent, last |-> "none", prev |-> "none"] :
        final \in {Absent, File(1, MaxChunks)}, stale \in BOOLEAN}

\* cached_download, lines 55-61: the call, and the reuse of a cached file
DlCall ==
    /\ dl # Idle /\ dl.pc = "idle" /\ dl.calls < MaxCalls
    /\ \E force \in BOOLEAN :
          IF dl.fs[dl.out].present /\ ~force
          THEN dl' = [dl EXCEPT !.calls = @ + 1, !.force = force,
                                !.startFinal = dl.fs[dl.out],
                                !.prev = dl.last, !.last = "cached"]
          ELSE dl' = [dl EXCEPT !.calls = @ + 1, !.force = force,
                                !.startFinal = dl.fs[dl.out],
                                !.prev = dl.last, !.last = "running",
                                !.downloads = @ + 1, !.pc = "get"]

\* lines 69-70: session.get and raise_for_status succeed, for a body of
\* some length, or raise
DlGet ==
    /\ dl # Idle /\ dl.pc = "get"
    /\ \/ \E len \in 0..MaxChunks :
             dl' = [dl EXCEPT !.pc = "open", !.lens = Append(@, len)]
       \/ dl' = [dl EXCEPT !.pc = "except"]

\* line 71: open(temp_out, "wb") creates or truncates the temporary file
DlOpen ==
    /\ dl # Idle /\ dl.pc = "open"
    /\ dl' = [dl EXCEPT !.pc = "write", !.fs[TempOut] = File(Len(dl.lens), 0)]

\* lines 73-75: the next chunk is written, the stream raises, or the body
\* has ended
DlWrite ==
    /\ dl # Idle /\ dl.pc = "write"
    /\ IF dl.fs[TempOut].n < dl.lens[Len(dl.lens)]
       THEN \/ dl' = [dl EXCEPT !.fs[TempOut].n = @ + 1]
            \/ dl' = [dl EXCEPT !.pc = "except"]
       ELSE dl' = [dl EXCEPT !.pc = "rename"]

\* lines 78-79 and 86: temp_out.rename(out)
DlRename ==
    /\ dl # Idle /\ dl.pc = "rename"
    /\ IF dl.fs[TempOut].present
       THEN dl' = [dl EXCEPT !.pc = "idle", !.last = "downloaded",
                             !.fs = [p \in CachePaths |->
                                        IF p = dl.out THEN dl.fs[TempOut]
                                        ELSE IF p = TempOut THEN Absent
                                        ELSE dl.fs[p]]]
       ELSE dl' = [dl EXCEPT !.pc = "idle", !.last = "downloaded"]

\* lines 81-84: the temporary file is removed and RuntimeError is raised
DlExcept ==
    /\ dl # Idle /\ dl.pc = "except"
    /\ dl' = [dl EXCEPT !.pc = "idle", !.last = "RuntimeError",
                        !.fs[TempOut] = Absent]

\* The process is killed in the middle of a download: the files stay as
\* they are.
DlCrash ==
    /\ dl # Idle /\ dl.pc \in {"get", "open", "write", "rename", "except"}
    /\ dl' = [dl EXCEPT !.pc = "idle", !.last = "crashed"]

(***************************************************************************)
(* The disk cache: infra/storage/cache.py, cached_extract_zip              *)
(* A path is the sequence of its components from the root; a member name   *)
(* is absolute or not, and a sequence of components.                       *)
(***************************************************************************)
MaxMembers == 3   \* an archive has at most MaxMembers members

PARENT == ".."

\* Path.resolve() of base / member, no component being a symbolic link
RECURSIVE ResolveParts(_, _)
ResolveParts(path, parts) ==
    IF parts = <<>> THEN path
    ELSE IF Head(parts) = PARENT
    THEN ResolveParts(IF path = <<>> THEN path ELSE SubSeq(path, 1, Len(path) - 1),
                      Tail(parts))
    ELSE ResolveParts(Append(path, Head(parts)), Tail(parts))

\* (destination / member).resolve(): an absolute member replaces the base
ResolveMember(destination, member) ==
    ResolveParts(IF member.abs THEN <<>> ELSE destination, member.parts)

\* A variant of is_relative_to that accepts every path
is_relative_to_any(path, other) == TRUE

\* PurePath.is_relative_to
is_relative_to(path, other) ==
    Len(path) >= Len(other) /\ SubSeq(path, 1, Len(other)) = other

\* The path ZipFile.extractall writes a member to, below the directory: the
\* root and the ".." components of the name are dropped.
ExtractedPath(member) == SelectSeq(member.parts, LAMBDA p : p # PARENT)

Destination == <<"cache", "footprint">>
Member(abs, parts) == [abs |-> abs, parts |-> parts]
ArchiveMembers ==
    {Member(FALSE, <<"a.shp">>),
     Member(FALSE, <<"sub", PARENT, "b.dbf">>),
     Member(FALSE, <<PARENT, "footprint", "c.prj">>),
     Member(TRUE, <<"cache", "footprint", "d.shx">>),
     Member(FALSE, <<PARENT, "evil">>),
     Member(FALSE, <<"sub", PARENT, PARENT, "evil">>),
     Member(TRUE, <<"etc", "passwd">>)}

\* The calls on one archive, from a directory that does not exist or is
\* empty.
ExtractStarts(members) ==
    {[state |-> "run", pc |-> "idle", archive |-> a, force |-> FALSE,
      exists |-> e, entries |-> {}, checked |-> 0, written |-> 0,
      calls |-> 0, last |-> "none", prev |-> "none"] :
        a \in SeqsUpTo(members, MaxMembers), e \in BOOLEAN}

\* cached_extract_zip, lines 101-102: an existing extraction is reused
ExCall ==
    /\ ex # Idle /\ ex.pc = "idle" /\ ex.calls < MaxCalls
    /\ \E force \in BOOLEAN :
          IF ex.exists /\ ex.entries # {} /\ ~force
          THEN ex' = [ex EXCEPT !.calls = @ + 1, !.force = force,
                                !.prev = ex.last, !.last = "existing"]
          ELSE ex' = [ex EXCEPT !.calls = @ + 1, !.force = force,
                                !.prev = ex.last, !.last = "running",
                                !.pc = "mkdir"]

\* lines 104-105: extract_dir.mkdir(parents=True, exist_ok=True)
ExMkdir ==
    /\ ex # Idle /\ ex.pc = "mkdir"
    /\ ex' = [ex EXCEPT !.pc = "validate", !.exists = TRUE,
                        !.checked = 0, !.written = 0]

\* lines 111-114: the next member is checked; the loop ends with the last
ExValidate ==
    /\ ex # Idle /\ ex.pc = "validate"
    /\ IF ex.checked = Len(ex.archive)
       THEN ex' = [ex EXCEPT !.pc = "extract"]
       ELSE IF ~is_relative_to(ResolveMember(Destination, ex.archive[ex.checked + 1]),
                               Destination)
       THEN ex' = [ex EXCEPT !.pc = "idle", !.last = "ValueError"]
       ELSE ex' = [ex EXCEPT !.checked = @ + 1]

\* lines 116-118: zf.extractall(extract_dir), member after member
ExExtractAll ==
    /\ ex # Idle /\ ex.pc = "extract"
    /\ IF ex.written = Len(ex.archive)
       THEN ex' = [ex EXCEPT !.pc = "idle", !.last = "extracted"]
       ELSE ex' = [ex EXCEPT !.written = @ + 1,
                             !.entries = @ \cup {ExtractedPath(ex.archive[ex.written + 1])}]

(***************************************************************************)
(* The columns of the catalog rows: core/catalog/census.py, the fields     *)
(* required_columns, column_map, extensive_vars and intensive_vars of      *)
(* CENSUS_CATALOG, with column names written as in the tables above        *)
(***************************************************************************)
\* _gen_cols(prefix, start, end, width)
gen_cols(prefix, start, end, width) ==
    {ColName(prefix, i, width) : i \in start..(end - 1)}

NoColumnMap == [c \in {} |-> c]
CorColumns == {Named(CorName[CENSO_RACES[i]]) : i \in 1..5}
AgeFtp2022Columns == {ColName("V", i, 5) : i \in {644, 649, 654, 659, 664, 669, 674, 679}}

required_columns(spec) ==
    CASE KeyOf(spec) = <<"basic", 2010, "bd_table">> ->
            {ColName("v", 1, 3), ColName("v", 2, 3)}
      [] KeyOf(spec) = <<"income", 2010, "bd_table">> -> {ColName("v", 5, 3)}
      [] KeyOf(spec) = <<"age", 2010, "bd_table">> ->
            {ColName("v", 22, 3)} \cup gen_cols("v", 35, 135, 3)
      [] KeyOf(spec) = <<"race", 2010, "bd_table">> -> gen_cols("v", 2, 7, 3)
      [] KeyOf(spec) = <<"age", 2010, "ftp_csv">> ->
            {ColName("V", 22, 3)} \cup gen_cols("V", 35, 135, 3)
      [] KeyOf(spec) = <<"basic", 2022, "bd_table">> ->
            {Named("domicilios"), Named("pessoas")}
      [] KeyOf(spec) = <<"age", 2022, "bd_table">> ->
            {Named("pessoas"), ColName("V", 644, 5)} \cup gen_cols("V", 645, 657, 5)
      [] KeyOf(spec) = <<"race", 2022, "bd_table">> ->
            {Named("pessoas")} \cup gen_cols("V", 644, 657, 5)
                \cup gen_cols("V", 657, 717, 5)
      [] KeyOf(spec) = <<"age", 2022, "ftp_csv">> -> AgeFtp2022Columns
      [] OTHER -> {}

\* column_map without its id entry: the id is the index of the table
column_map(spec) ==
    CASE KeyOf(spec) \in {<<"basic", 2010, "bd_table">>} ->
            ColName("v", 2, 3) :> Named("habitantes")
      [] KeyOf(spec) = <<"income", 2010, "bd_table">> ->
            ColName("v", 5, 3) :> Named("rendimento_medio")
      [] KeyOf(spec) = <<"race", 2010, "bd_table">> ->
            [c \in gen_cols("v", 2, 7, 3) |-> Named(CorName[CENSO_RACES[c[2] - 1]])]
      [] KeyOf(spec) = <<"basic", 2010, "ftp_csv">> ->
            ColName("V", 2, 3) :> Named("habitantes")
      [] KeyOf(spec) = <<"income", 2010, "ftp_csv">> ->
            ColName("V", 5, 3) :> Named("rendimento_medio")
      [] KeyOf(spec) = <<"race", 2010, "ftp_csv">> ->
            [c \in gen_cols("V", 2, 7, 3) |-> Named(CorName[CENSO_RACES[c[2] - 1]])]
      [] KeyOf(spec) = <<"age", 2010, "ftp_csv">> ->
            [c \in {ColName("V", 22, 3)} \cup gen_cols("V", 35, 135, 3) |->
                ColName("v", c[2], 3)]
      [] KeyOf(spec) = <<"basic", 2022, "bd_table">> ->
            (Named("pessoas") :> Named("habitantes"))
                @@ (Named("domicilios") :> Named("total_domicilios"))
      [] KeyOf(spec) = <<"basic", 2022, "ftp_csv">> ->
            (ColName("v", 1, 4) :> Named("habitantes"))
                @@ (ColName("v", 2, 4) :> Named("total_domicilios"))
                @@ (ColName("v", 3, 4) :> Named("domicilios_particulares"))
                @@ (ColName("v", 4, 4) :> Named("domicilios_coletivos"))
                @@ (ColName("v", 5, 4) :> Named("media_moradores_dom_ocupados"))
                @@ (ColName("v", 6, 4) :> Named("pct_domicilios_imputados"))
                @@ (ColName("v", 7, 4) :> Named("domicilios_particulares_ocupados"))
      [] KeyOf(spec) = <<"income", 2022, "ftp_csv">> ->
            ColName("V", 6004, 5) :> Named("rendimento_medio")
      [] KeyOf(spec) = <<"race", 2022, "ftp_csv">> ->
            [c \in gen_cols("V", 1317, 1322, 5) |->
                Named(CorName[CENSO_RACES[c[2] - 1316]])]
      [] OTHER -> NoColumnMap

extensive_vars(spec) ==
    CASE KeyOf(spec) \in {<<"basic", 2010, "bd_table">>, <<"basic", 2010, "ftp_csv">>} ->
            {Named("habitantes")}
      [] KeyOf(spec) \in {<<"age", 2010, "bd_table">>, <<"age", 2010, "ftp_csv">>} ->
            {ColName("v", 22, 3)} \cup gen_cols("v", 35, 135, 3)
      [] KeyOf(spec) \in {<<"race", 2010, "bd_table">>, <<"race", 2010, "ftp_csv">>,
                             <<"race", 2022, "ftp_csv">>} -> CorColumns
      [] KeyOf(spec) = <<"basic", 2022, "bd_table">> ->
            {Named("habitantes"), Named("total_domicilios")}
      [] KeyOf(spec) = <<"age", 2022, "bd_table">> -> required_columns(spec)
      [] KeyOf(spec) = <<"race", 2022, "bd_table">> -> required_columns(spec)
      [] KeyOf(spec) = <<"basic", 2022, "ftp_csv">> ->
            {Named("habitantes"), Named("total_domicilios"),
             Named("domicilios_particulares"), Named("domicilios_coletivos"),
             Named("domicilios_particulares_ocupados")}
      [] KeyOf(spec) = <<"age", 2022, "ftp_csv">> -> AgeFtp2022Columns
      [] OTHER -> {}

intensive_vars(spec) ==
    CASE spec.theme = "income" -> {Named("rendimento_medio")}
      [] KeyOf(spec) = <<"basic", 2022, "ftp_csv">> ->
            {Named("media_moradores_dom_ocupados"), Named("pct_domicilios_imputados")}
      [] OTHER -> {}

\* The data columns an adapter asks for: fetch_census_bd selects
\* required_columns, fetch_census_ftp reads the keys of column_map.
SourceColumns(spec) ==
    IF spec.strategy = "bd_table" THEN required_columns(spec)
    ELSE DOMAIN column_map(spec)

\* The source columns the model puts into the raw tables
SampledNumbers == {1, 2, 3, 5, 22, 35, 644, 649, 657, 1317, 6004}
SampledColumns(spec) ==
    {c \in SourceColumns(spec) : c[3] = 0 \/ c[2] \in SampledNumbers}

\* The raw one-sector tables of a catalog row, before the rename
HarmonizeCalls(catalog) ==
    UNION {{[state |-> "run", pc |-> "raw", theme |-> catalog[i].theme,
             year |-> catalog[i].year, strategy |-> catalog[i].strategy,
             df |-> [id \in {SectorA1} |-> row], out |-> <<>>] :
                row \in TablesOver(SampledColumns(catalog[i]))} :
           i \in 1..Len(catalog)}

\* df.rename(columns=spec.column_map) of both adapters
SdRename ==
    /\ sd # Idle /\ sd.pc = "raw"
    /\ sd' = [sd EXCEPT !.pc = "call", !.df = RenameTable(sd.df, column_map(sd))]

(***************************************************************************)
(* The construction of _CATALOG_INDEX from a catalog:                      *)
(* core/catalog/census.py, the dict comprehension over CENSUS_CATALOG      *)
(***************************************************************************)
MaxRows == 3   \* a catalog the index is built from has at most MaxRows rows

\* Catalog rows the construction is run on: two themes under two strategies,
\* each from either of two tables.
IndexRows ==
    {CensusThemeSpec(t, 2010, s, tab, NoResource) :
        t \in {"basic", "age"}, s \in {"bd_table", "ftp_csv"},
        tab \in {BD_TABLE_BASIC_2010, BD_TABLE_AGE_2010}}

IndexBuilds(rows) ==
    {[state |-> "run", pc |-> "build", catalog |-> c, pos |-> 0,
      index |-> EmptyIndex] :
        c \in UNION {[1..n -> rows] : n \in 0..MaxRows}}

\* {(s.theme, s.year, s.strategy): s for s in catalog}, one row at a time
IxPut ==
    /\ ix # Idle /\ ix.pc = "build" /\ ix.pos < Len(ix.catalog)
    /\ ix' = [ix EXCEPT !.pos = @ + 1,
                        !.index = IndexPut(@, ix.catalog[ix.pos + 1])]

\* The comprehension ends: the name _CATALOG_INDEX is bound to the dict
IxBind ==
    /\ ix # Idle /\ ix.pc = "build" /\ ix.pos = Len(ix.catalog)
    /\ ix' = [ix EXCEPT !.pc = "done", !.state = "built"]

(***************************************************************************)
(* The aggregation rules of the hexagon output: app/census.py, step 6 of   *)
(* load_census                                                             *)
(***************************************************************************)
\* Columns of merged_df and tags collected from the specs of the themes
MergedColumns ==
    {Named("habitantes"), Named("rendimento_medio"), Named("domicilios"),
     Named("age_0_14")}
ExtensiveTags == {Named("habitantes"), ColName("v", 22, 3)}
IntensiveTags == {Named("rendimento_medio")}

ClassifyCalls(columns) ==
    {[state |-> "run", pc |-> "filter", cols |-> cols,
      extensive_vars |-> ext, intensive_vars |-> int,
      valid_ext |-> <<>>, valid_int |-> <<>>, warned |-> FALSE, out |-> {}] :
        cols \in SUBSET columns,
        ext \in UNION {[1..n -> ExtensiveTags] : n \in 0..MaxCols},
        int \in UNION {[1..n -> IntensiveTags] : n \in 0..MaxCols}}

\* valid_ext and valid_int, and the warning when both are empty
ClFilter ==
    /\ cl # Idle /\ cl.pc = "filter"
    /\ LET ext == KeepIn(cl.extensive_vars, cl.cols)
           int == KeepIn(cl.intensive_vars, cl.cols)
       IN cl' = [cl EXCEPT !.pc = "interpolate", !.valid_ext = ext,
                           !.valid_int = int,
                           !.warned = (ext = <<>> /\ int = <<>>)]

\* interpolate_area_weighted and the join on the hexagons: the hexagon
\* table carries the geometry and the interpolated variables
ClInterpolate ==
    /\ cl # Idle /\ cl.pc = "interpolate"
    /\ cl' = [cl EXCEPT !.pc = "done",
                        !.out = {Named(GEOMETRY)} \cup Range(cl.valid_ext)
                                    \cup Range(cl.valid_int)]

(***************************************************************************)
(* The rows of the table load_census returns: app/census.py, the merge of  *)
(* the themes (step 2.D) and the join onto the tracts (steps 3 and 4).     *)
(* A table is the set of the tract ids of its index.                       *)
(***************************************************************************)
JoinIds == {SectorA1, SectorA2, SectorB1}

JoinCalls(ids) ==
    {[state |-> "run", pc |-> "merge", themes |-> th, tracts |-> tr,
      merged |-> {}, out |-> {}] :
        th \in UNION {[1..n -> SUBSET ids] : n \in 1..MaxThemes},
        tr \in SUBSET ids}

\* merged_df = df_clean, or merged_df.join(df_clean, how="outer")
JnMerge ==
    /\ jn # Idle /\ jn.pc = "merge" /\ jn.themes # <<>>
    /\ jn' = [jn EXCEPT !.themes = Tail(@), !.merged = @ \cup Head(jn.themes)]

\* RuntimeError on an empty merged_df; gdf_tracts.join(merged_df,
\* how="inner"); RuntimeError on an empty join
JnJoin ==
    /\ jn # Idle /\ jn.pc = "merge" /\ jn.themes = <<>>
    /\ IF jn.merged = {} \/ jn.tracts \cap jn.merged = {}
       THEN jn' = [jn EXCEPT !.pc = "raised", !.state = "RuntimeError"]
       ELSE jn' = [jn EXCEPT !.pc = "returned", !.out = jn.tracts \cap jn.merged]

(***************************************************************************)
(* The disk cache under two concurrent calls: infra/storage/cache.py,      *)
(* cached_download called by two processes for the same URL and relpath.   *)
(* A directory entry names a file (0: no entry); a file is the set of the  *)
(* chunks of the body it holds, and an open file is written at the offset  *)
(* of the process that opened it. The response body has MaxChunks chunks.  *)
(***************************************************************************)
Procs == {1, 2}

EmptyFile == [i \in 1..MaxChunks |-> FALSE]
WholeFile == [i \in 1..MaxChunks |-> TRUE]

NewProc == [pc |-> "start", fd |-> 0, off |-> 0, failed |-> FALSE]

\* The cache before the two calls: the final file is absent or whole, and
\* an earlier run may have left a partial temporary file.
ConcurrentStarts ==
    {[state |-> "run",
      files |-> (IF final THEN <<WholeFile>> ELSE <<>>)
                    \o (IF stale THEN <<EmptyFile>> ELSE <<>>),
      out |-> IF final THEN 1 ELSE 0,
      temp_out |-> IF ~stale THEN 0 ELSE IF final THEN 2 ELSE 1,
      procs |-> [p \in Procs |-> NewProc]] :
        final \in BOOLEAN, stale \in BOOLEAN}

\* lines 55-61: out.exists() and not force
CdStart(p) ==
    /\ cd # Idle /\ cd.procs[p].pc = "start"
    /\ cd' = [cd EXCEPT !.procs[p].pc =
                            IF cd.out # 0 THEN "returned" ELSE "get"]

\* lines 69-70: session.get and raise_for_status succeed or raise
CdGet(p) ==
    /\ cd # Idle /\ cd.procs[p].pc = "get"
    /\ \/ cd' = [cd EXCEPT !.procs[p].pc = "open"]
       \/ cd' = [cd EXCEPT !.procs[p].pc = "except", !.procs[p].failed = TRUE]

\* line 71: open(temp_out, "wb") truncates the file the entry names, or
\* creates the entry and a new file
CdOpen(p) ==
    /\ cd # Idle /\ cd.procs[p].pc = "open"
    /\ IF cd.temp_out # 0
       THEN cd' = [cd EXCEPT !.files[cd.temp_out] = EmptyFile,
                             !.procs[p] = [@ EXCEPT !.pc = "write",
                                                    !.fd = cd.temp_out, !.off = 0]]
       ELSE cd' = [cd EXCEPT !.files = Append(@, EmptyFile),
                             !.temp_out = Len(cd.files) + 1,
                             !.procs[p] = [@ EXCEPT !.pc = "write",
                                                    !.fd = Len(cd.files) + 1,
                                                    !.off = 0]]

\* lines 73-75: the next chunk is written at the process's offset, the
\* stream raises, or the body has ended and the file is closed
CdWrite(p) ==
    /\ cd # Idle /\ cd.procs[p].pc = "write"
    /\ IF cd.procs[p].off < MaxChunks
       THEN \/ cd' = [cd EXCEPT !.files[cd.procs[p].fd][cd.procs[p].off + 1] = TRUE,
                                !.procs[p].off = @ + 1]
            \/ cd' = [cd EXCEPT !.procs[p].pc = "except", !.procs[p].failed = TRUE]
       ELSE cd' = [cd EXCEPT !.procs[p].pc = "exists"]

\* line 78: temp_out.exists()
CdExists(p) ==
    /\ cd # Idle /\ cd.procs[p].pc = "exists"
    /\ cd' = [cd EXCEPT !.procs[p].pc =
                            IF cd.temp_out # 0 THEN "rename" ELSE "returned"]

\* line 79: temp_out.rename(out) replaces the final entry, or raises
\* FileNotFoundError when the temporary entry is gone
CdRename(p) ==
    /\ cd # Idle /\ cd.procs[p].pc = "rename"
    /\ IF cd.temp_out # 0
       THEN cd' = [cd EXCEPT !.out = cd.temp_out, !.temp_out = 0,
                             !.procs[p].pc = "returned"]
       ELSE cd' = [cd EXCEPT !.procs[p].pc = "except"]

\* lines 81-84: the temporary entry is removed and RuntimeError is raised
CdExcept(p) ==
    /\ cd # Idle /\ cd.procs[p].pc = "except"
    /\ cd' = [cd EXCEPT !.temp_out = 0, !.procs[p].pc = "raised"]

\* Tables of one municipality with the 15+ population and the 15+ totals of
\* two races, for the imputation of the children.
TwoRaceSchema ==
    {Named("pessoas"), ColName("V", 644, 5), ColName("V", 657, 5),
     ColName("V", 658, 5)}
TwoRaceCalls(cols) ==
    {[strategy |-> "bd_table", df |-> t] :
        t \in UNION {[ids -> RaceRows(cols)] :
                        ids \in {{SectorA1}, {SectorA1, SectorA2}}}}

(***************************************************************************)
(* The age handlers on the columns the age rows of the catalog declare     *)
(***************************************************************************)
\* The name under which the handler gets a source column of a catalog row
HandlerName(spec, c) == RenamedName(c, column_map(spec))

\* The columns a probe marks: those numbered like the declared ones and
\* their neighbours, under the prefix the handler of the year sums.
ProbedColumns(spec) ==
    IF spec.year = 2010
    THEN {ColName("v", i, 3) : i \in (21..23) \cup (34..135)}
    ELSE {ColName("V", i, 5) : i \in 643..680}

\* The total-population column of a row of the year and strategy
TotalOf(spec) ==
    IF spec.year = 2022 /\ spec.strategy = "bd_table" THEN Named("pessoas")
    ELSE Named("habitantes")

\* One-row tables in which the probed column holds `mark`, with or without
\* the total-population column.
ProbeRow(spec, c, mark, total) ==
    IF total = NaN THEN c :> mark
    ELSE (c :> mark) @@ (TotalOf(spec) :> total)

BracketCalls(catalog) ==
    UNION {{[year |-> catalog[i].year, strategy |-> catalog[i].strategy,
             col |-> c, total |-> total,
             df |-> ProbeRow(catalog[i], c, Fin(1), total)] :
                c \in ProbedColumns(catalog[i]), total \in {NaN, Fin(MaxVal)}} :
           i \in {j \in 1..Len(catalog) : catalog[j].theme = "age"}}

PickIdle == pickIn = Idle /\ pickOut = Idle
PlanIdle == planIn = Idle /\ planOut = Idle
LoadIdle == lc = Idle
LateIdle == ix = Idle /\ cl = Idle /\ cd = Idle /\ jn = Idle
SecondIdle ==
    ft = Idle /\ mk = Idle /\ pt = Idle /\ sd = Idle /\ dl = Idle /\ ex = Idle
MoreIdle == SecondIdle /\ LateIdle
secondVars == <<ft, mk, pt, sd, dl, ex>>
OldIdle == CatIdle /\ AgeIdle /\ RaceIdle /\ PickIdle /\ PlanIdle /\ LoadIdle

(***************************************************************************)
(* Specifications, one per component                                       *)
(***************************************************************************)
InitCatalog ==
    CatIdle /\ AgeIdle /\ RaceIdle /\ PickIdle /\ PlanIdle /\ LoadIdle /\ MoreIdle
NextCatalog ==
    \/ CatRegister /\ UNCHANGED <<ageVars, raceVars, pickVars, planVars, lc, moreVars>>
    \/ CatLookup /\ UNCHANGED <<ageVars, raceVars, pickVars, planVars, lc, moreVars>>
SpecCatalog == InitCatalog /\ [][NextCatalog]_vars

InitAge ==
    /\ ageIn \in AgeCalls(AgeStrategies) /\ ageOut = Idle
    /\ CatIdle /\ RaceIdle /\ PickIdle /\ PlanIdle /\ LoadIdle /\ MoreIdle
NextAge ==
    \/ HandleAge2010 /\ UNCHANGED <<catVars, raceVars, pickVars, planVars, lc, moreVars>>
    \/ HandleAge2022 /\ UNCHANGED <<catVars, raceVars, pickVars, planVars, lc, moreVars>>
SpecAge == InitAge /\ [][NextAge]_vars

InitRace ==
    /\ raceIn \in RaceCalls(RaceSchemas, RaceFtpSchemas) /\ raceOut = Idle
    /\ CatIdle /\ AgeIdle /\ PickIdle /\ PlanIdle /\ LoadIdle /\ MoreIdle
NextRace ==
    \/ HandleRace2022Bd /\ UNCHANGED <<catVars, ageVars, pickVars, planVars, lc, moreVars>>
    \/ HandleRace2022Ftp /\ UNCHANGED <<catVars, ageVars, pickVars, planVars, lc, moreVars>>
SpecRace == InitRace /\ [][NextRace]_vars

InitPick ==
    /\ pickIn \in PickCalls(PickStems) /\ pickOut = Idle
    /\ CatIdle /\ AgeIdle /\ RaceIdle /\ PlanIdle /\ LoadIdle /\ MoreIdle
NextPick ==
    PickZipForStem /\ UNCHANGED <<catVars, ageVars, raceVars, planVars, lc, moreVars>>
SpecPick == InitPick /\ [][NextPick]_vars

InitPlan ==
    /\ planIn \in PlanCalls(FtpSpecs) /\ planOut = Idle
    /\ CatIdle /\ AgeIdle /\ RaceIdle /\ PickIdle /\ LoadIdle /\ MoreIdle
NextPlan ==
    ResolveTargetUrls /\ UNCHANGED <<catVars, ageVars, raceVars, pickVars, lc, moreVars>>
SpecPlan == InitPlan /\ [][NextPlan]_vars

InitLoad ==
    /\ lc \in LoadCalls(ProbeThemes)
    /\ CatIdle /\ AgeIdle /\ RaceIdle /\ PickIdle /\ PlanIdle /\ MoreIdle
NextLoad ==
    \/ LcResolvePlaces /\ UNCHANGED <<catVars, ageVars, raceVars, pickVars, planVars, moreVars>>
    \/ LcLoadTheme /\ UNCHANGED <<catVars, ageVars, raceVars, pickVars, planVars, moreVars>>
    \/ LcFinish /\ UNCHANGED <<catVars, ageVars, raceVars, pickVars, planVars, moreVars>>
SpecLoad == InitLoad /\ [][NextLoad]_vars

InitFetch ==
    /\ ft \in FetchCalls(FetchSpecs)
    /\ mk = Idle /\ pt = Idle /\ sd = Idle /\ dl = Idle /\ ex = Idle
    /\ OldIdle /\ LateIdle
NextFetch ==
    \/ FtPlan /\ UNCHANGED <<oldVars, lateVars, mk, pt, sd, dl, ex>>
    \/ FtArchive /\ UNCHANGED <<oldVars, lateVars, mk, pt, sd, dl, ex>>
    \/ FtReturn /\ UNCHANGED <<oldVars, lateVars, mk, pt, sd, dl, ex>>
SpecFetch == InitFetch /\ [][NextFetch]_vars

InitMask ==
    /\ mk \in MaskCalls(Boxes)
    /\ ft = Idle /\ pt = Idle /\ sd = Idle /\ dl = Idle /\ ex = Idle
    /\ OldIdle /\ LateIdle
NextMask ==
    \/ MkCreateMask /\ UNCHANGED <<oldVars, lateVars, ft, pt, sd, dl, ex>>
    \/ MkClip /\ UNCHANGED <<oldVars, lateVars, ft, pt, sd, dl, ex>>
SpecMask == InitMask /\ [][NextMask]_vars

InitPrepare ==
    /\ pt \in PrepareCalls({RawIdRio, RawIdFloat, RawIdDigits, RawIdLong})
    /\ ft = Idle /\ mk = Idle /\ sd = Idle /\ dl = Idle /\ ex = Idle
    /\ OldIdle /\ LateIdle
NextPrepare ==
    \/ PtPrepare /\ UNCHANGED <<oldVars, lateVars, ft, mk, sd, dl, ex>>
    \/ PtPrepareAgain /\ UNCHANGED <<oldVars, lateVars, ft, mk, sd, dl, ex>>
SpecPrepare == InitPrepare /\ [][NextPrepare]_vars

InitDispatch ==
    /\ sd \in DispatchCalls(DispatchThemes)
    /\ ft = Idle /\ mk = Idle /\ pt = Idle /\ dl = Idle /\ ex = Idle
    /\ OldIdle /\ LateIdle
NextDispatch ==
    \/ StandardizeCensusDataframe /\ UNCHANGED <<oldVars, lateVars, ft, mk, pt, dl, ex>>
SpecDispatch == InitDispatch /\ [][NextDispatch]_vars

InitDownload ==
    /\ dl \in DownloadStarts
    /\ ft = Idle /\ mk = Idle /\ pt = Idle /\ sd = Idle /\ ex = Idle
    /\ OldIdle /\ LateIdle
NextDownload ==
    \/ DlCall /\ UNCHANGED <<oldVars, lateVars, ft, mk, pt, sd, ex>>
    \/ DlGet /\ UNCHANGED <<oldVars, lateVars, ft, mk, pt, sd, ex>>
    \/ DlOpen /\ UNCHANGED <<oldVars, lateVars, ft, mk, pt, sd, ex>>
    \/ DlWrite /\ UNCHANGED <<oldVars, lateVars, ft, mk, pt, sd, ex>>
    \/ DlRename /\ UNCHANGED <<oldVars, lateVars, ft, mk, pt, sd, ex>>
    \/ DlExcept /\ UNCHANGED <<oldVars, lateVars, ft, mk, pt, sd, ex>>
    \/ DlCrash /\ UNCHANGED <<oldVars, lateVars, ft, mk, pt, sd, ex>>
SpecDownload == InitDownload /\ [][NextDownload]_vars

InitExtract ==
    /\ ex \in ExtractStarts(ArchiveMembers)
    /\ ft = Idle /\ mk = Idle /\ pt = Idle /\ sd = Idle /\ dl = Idle
    /\ OldIdle /\ LateIdle
NextExtract ==
    \/ ExCall /\ UNCHANGED <<oldVars, lateVars, ft, mk, pt, sd, dl>>
    \/ ExMkdir /\ UNCHANGED <<oldVars, lateVars, ft, mk, pt, sd, dl>>
    \/ ExValidate /\ UNCHANGED <<oldVars, lateVars, ft, mk, pt, sd, dl>>
    \/ ExExtractAll /\ UNCHANGED <<oldVars, lateVars, ft, mk, pt, sd, dl>>
SpecExtract == InitExtract /\ [][NextExtract]_vars

InitHarmonize ==
    /\ sd \in HarmonizeCalls(CENSUS_CATALOG)
    /\ ft = Idle /\ mk = Idle /\ pt = Idle /\ dl = Idle /\ ex = Idle
    /\ OldIdle /\ LateIdle
NextHarmonize ==
    \/ SdRename /\ UNCHANGED <<oldVars, lateVars, ft, mk, pt, dl, ex>>
    \/ StandardizeCensusDataframe /\ UNCHANGED <<oldVars, lateVars, ft, mk, pt, dl, ex>>
SpecHarmonize == InitHarmonize /\ [][NextHarmonize]_vars

InitIndex ==
    /\ ix \in IndexBuilds(IndexRows)
    /\ cl = Idle /\ cd = Idle /\ jn = Idle
    /\ OldIdle /\ SecondIdle
NextIndex ==
    \/ IxPut /\ UNCHANGED <<oldVars, secondVars, cl, cd, jn>>
    \/ IxBind /\ UNCHANGED <<oldVars, secondVars, cl, cd, jn>>
SpecIndex == InitIndex /\ [][NextIndex]_vars

InitClassify ==
    /\ cl \in ClassifyCalls(MergedColumns)
    /\ ix = Idle /\ cd = Idle /\ jn = Idle
    /\ OldIdle /\ SecondIdle
NextClassify ==
    \/ ClFilter /\ UNCHANGED <<oldVars, secondVars, ix, cd, jn>>
    \/ ClInterpolate /\ UNCHANGED <<oldVars, secondVars, ix, cd, jn>>
SpecClassify == InitClassify /\ [][NextClassify]_vars

InitJoin ==
    /\ jn \in JoinCalls(JoinIds)
    /\ ix = Idle /\ cl = Idle /\ cd = Idle
    /\ OldIdle /\ SecondIdle
NextJoin ==
    \/ JnMerge /\ UNCHANGED <<oldVars, secondVars, ix, cl, cd>>
    \/ JnJoin /\ UNCHANGED <<oldVars, secondVars, ix, cl, cd>>
SpecJoin == InitJoin /\ [][NextJoin]_vars

InitConcurrent ==
    /\ cd \in ConcurrentStarts
    /\ ix = Idle /\ cl = Idle /\ jn = Idle
    /\ OldIdle /\ SecondIdle
NextConcurrent ==
    \/ (\E p \in Procs : CdStart(p)) /\ UNCHANGED <<oldVars, secondVars, ix, cl, jn>>
    \/ (\E p \in Procs : CdGet(p)) /\ UNCHANGED <<oldVars, secondVars, ix, cl, jn>>
    \/ (\E p \in Procs : CdOpen(p)) /\ UNCHANGED <<oldVars, secondVars, ix, cl, jn>>
    \/ (\E p \in Procs : CdWrite(p)) /\ UNCHANGED <<oldVars, secondVars, ix, cl, jn>>
    \/ (\E p \in Procs : CdExists(p)) /\ UNCHANGED <<oldVars, secondVars, ix, cl, jn>>
    \/ (\E p \in Procs : CdRename(p)) /\ UNCHANGED <<oldVars, secondVars, ix, cl, jn>>
    \/ (\E p \in Procs : CdExcept(p)) /\ UNCHANGED <<oldVars, secondVars, ix, cl, jn>>
SpecConcurrent == InitConcurrent /\ [][NextConcurrent]_vars

InitConserve ==
    /\ raceIn \in TwoRaceCalls(TwoRaceSchema) /\ raceOut = Idle
    /\ CatIdle /\ AgeIdle /\ PickIdle /\ PlanIdle /\ LoadIdle /\ MoreIdle
NextConserve ==
    HandleRace2022Bd /\ UNCHANGED <<catVars, ageVars, pickVars, planVars, lc, moreVars>>
SpecConserve == InitConserve /\ [][NextConserve]_vars

InitBrackets ==
    /\ ageIn \in BracketCalls(CENSUS_CATALOG) /\ ageOut = Idle
    /\ CatIdle /\ RaceIdle /\ PickIdle /\ PlanIdle /\ LoadIdle /\ MoreIdle
NextBrackets ==
    \/ HandleAge2010 /\ UNCHANGED <<catVars, raceVars, pickVars, planVars, lc, moreVars>>
    \/ HandleAge2022 /\ UNCHANGED <<catVars, raceVars, pickVars, planVars, lc, moreVars>>
SpecBrackets == InitBrackets /\ [][NextBrackets]_vars

(***************************************************************************)
(* Properties of the catalog (checked under SpecCatalog)                   *)
(***************************************************************************)
RegisteredKeys == {KeyOf(CENSUS_CATALOG[i]) : i \in 1..Len(CENSUS_CATALOG)}
ReqKey == <<catReq.theme, catReq.year, catReq.strategy>>

\* C1: a lookup of a registered (theme, year, strategy) returns a row of the
\* catalog whose theme, year and strategy are the requested ones; a lookup
\* of a key that is not registered returns no spec at all.
C1_LookupExact ==
    catRes # Idle =>
        IF ReqKey \in RegisteredKeys
        THEN /\ catRes.kind = "spec"
             /\ catRes.spec \in Range(CENSUS_CATALOG)
             /\ catRes.spec.theme = catReq.theme
             /\ catRes.spec.year = catReq.year
             /\ catRes.spec.strategy = catReq.strategy
        ELSE catRes.kind # "spec"

C1_Witness ==
    /\ catRes # Idle
    /\ catRes.kind = "spec"
    /\ ReqKey = <<"income", 2010, "ftp_csv">>

\* C2: a lookup of an unregistered key fails with an error that names the
\* requested theme, year and strategy and lists exactly the themes that
\* are registered for that (year, strategy), possibly none.
C2_LookupErrorListsThemes ==
    (catRes # Idle /\ ReqKey \notin RegisteredKeys) =>
        /\ catRes.kind = "ValueError"
        /\ catRes.theme = catReq.theme
        /\ catRes.year = catReq.year
        /\ catRes.strategy = catReq.strategy
        /\ Range(catRes.available) =
              {k[1] : k \in {q \in RegisteredKeys :
                               q[2] = catReq.year /\ q[3] = catReq.strategy}}
        /\ Len(catRes.available) = Cardinality(Range(catRes.available))

C2_Witness ==
    /\ catRes # Idle
    /\ ReqKey = <<"income", 1999, "bd_table">>
    /\ catRes.kind = "ValueError"
    /\ catRes.available = <<>>

(***************************************************************************)
(* Properties of the age handlers (checked under SpecAge)                  *)
(***************************************************************************)
\* The value of a cell as the handlers read it: a missing column or a NaN
\* cell counts 0.
IntCell(row, c) ==
    IF c \in DOMAIN row /\ IsFinite(row[c]) THEN row[c].n ELSE 0

IntSumCols(row, pattern, width, S) ==
    SumOver({ColName(pattern, i, width) : i \in S},
            [c \in {ColName(pattern, i, width) : i \in S} |-> IntCell(row, c)])

Max0(n) == IF n < 0 THEN 0 ELSE n

A0  == Named("age_0_14")
A15 == Named("age_15_19")
A20 == Named("age_20_64")
A65 == Named("age_65p")

\* The total-population column of an age table: pessoas in the 2022
\* warehouse table, habitantes elsewhere.
TotalColumn(year, strategy) ==
    IF year = 2022 /\ strategy = "bd_table" THEN Named("pessoas")
    ELSE Named("habitantes")

AgeDone == ageOut # Idle
AgeInputFinite == \A c \in DOMAIN ageIn.df : IsFinite(ageIn.df[c])
AgeHasTotal ==
    /\ TotalColumn(ageIn.year, ageIn.strategy) \in DOMAIN ageIn.df
    /\ IsFinite(ageIn.df[TotalColumn(ageIn.year, ageIn.strategy)])

\* C4 as claimed: whenever the source cells are non-negative, each of the
\* four brackets of the output is >= 0.
C4_AllBracketsNonNegative ==
    (AgeDone /\ AgeInputFinite) =>
        \A b \in {A0, A15, A20, A65} : FGeq0(ageOut.value[b])

\* C4 as amended: age_15_19, age_20_64 and age_65p are >= 0; age_0_14 is
\* >= 0 for 2010 and for a 2022 table that has its total-population column,
\* and is NaN (not a number >= 0) for a 2022 table without that column.
C4_BracketsNonNegativeOrMissing ==
    (AgeDone /\ AgeInputFinite) =>
        /\ \A b \in {A15, A20, A65} : FGeq0(ageOut.value[b])
        /\ IF ageIn.year = 2010 \/ AgeHasTotal
           THEN FGeq0(ageOut.value[A0])
           ELSE IsNaN(ageOut.value[A0])

\* the clamped case: a published total below the 15-19 bracket
C4_Witness ==
    /\ AgeDone /\ AgeInputFinite
    /\ ageIn.year = 2022 /\ ageIn.strategy = "bd_table"
    /\ AgeHasTotal
    /\ ageIn.df[Named("pessoas")] = Fin(1)
    /\ ageOut.value[A15] = Fin(2)
    /\ ageOut.value[A0] = Fin(0)

\* The three summed brackets, from the cells of the input.
Expected15 == IntCell(ageIn.df, ColName("V", 644, 5))
Expected20 ==
    IF ageIn.strategy = "bd_table"
    THEN IntSumCols(ageIn.df, "V", 5, 645..653)
    ELSE IntSumCols(ageIn.df, "V", 5, {649, 654, 659, 664, 669, 674})
Expected65 ==
    IF ageIn.strategy = "bd_table"
    THEN IntSumCols(ageIn.df, "V", 5, 654..656)
    ELSE IntCell(ageIn.df, ColName("V", 679, 5))

\* C5 as claimed: for every age handler, age_0_14 of a row that has a
\* total population is max(0, total - (age_15_19 + age_20_64 + age_65p)).
C5_ResidualEveryYear ==
    (AgeDone /\ AgeHasTotal) =>
        /\ IsFinite(ageOut.value[A15]) /\ IsFinite(ageOut.value[A20])
        /\ IsFinite(ageOut.value[A65])
        /\ ageOut.value[A0] =
              Fin(Max0(ageIn.df[TotalColumn(ageIn.year, ageIn.strategy)].n
                       - (ageOut.value[A15].n + ageOut.value[A20].n
                          + ageOut.value[A65].n)))

\* C5 as amended: the residual rule holds for 2022 (both strategies) when
\* the table has its total-population column, the three other brackets
\* being the sums of their source columns; a 2022 table without the total
\* column gets NaN; for 2010 age_0_14 is the sum v022 + v035..v048 and no
\* total is read.
C5_Residual2022Sum2010 ==
    AgeDone =>
        IF ageIn.year = 2022
        THEN /\ ageOut.value[A15] = Fin(Expected15)
             /\ ageOut.value[A20] = Fin(Expected20)
             /\ ageOut.value[A65] = Fin(Expected65)
             /\ AgeHasTotal =>
                   ageOut.value[A0] =
                      Fin(Max0(ageIn.df[TotalColumn(2022, ageIn.strategy)].n
                               - (Expected15 + Expected20 + Expected65)))
             /\ TotalColumn(2022, ageIn.strategy) \notin DOMAIN ageIn.df =>
                   IsNaN(ageOut.value[A0])
        ELSE ageOut.value[A0] =
                Fin(IntCell(ageIn.df, ColName("v", 22, 3))
                    + IntSumCols(ageIn.df, "v", 3, 35..48))

C5_Witness ==
    /\ AgeDone /\ AgeHasTotal
    /\ ageIn.year = 2022 /\ ageIn.strategy = "ftp_csv"
    /\ ageIn.df[Named("habitantes")] = Fin(2)
    /\ ageOut.value[A65] = Fin(1)
    /\ ageOut.value[A0] = Fin(1)

(***************************************************************************)
(* Properties of the race handler (checked under SpecRace)                 *)
(***************************************************************************)
RaceBdDone ==
    /\ raceOut # Idle
    /\ raceIn.strategy = "bd_table"
    /\ Named("pessoas") \in ColumnsOf(raceIn.df)

\* The sums of the input cells of a sector: its 15+ population, the 15+
\* total of the race with index i (from 1), its children.
IntPop15p(id) == IntSumCols(raceIn.df[id], "V", 5, 644..656)
IntRace15p(id, i) ==
    IntSumCols(raceIn.df[id], "V", 5, PyRange(657 + (i - 1), 717, 5))
IntChildren(id) == Max0(IntCell(raceIn.df[id], Named("pessoas")) - IntPop15p(id))

\* The sectors of the table whose id has the same first 7 digits.
Mates(id) ==
    {o \in DOMAIN raceIn.df : \A j \in 1..7 : o[j] = id[j]}
MuniPop15p(id) == SumOver(Mates(id), [o \in Mates(id) |-> IntPop15p(o)])
MuniRace15p(id, i) == SumOver(Mates(id), [o \in Mates(id) |-> IntRace15p(o, i)])

CorOf(id, i) == raceOut.value[id][Named(CorName[CENSO_RACES[i]])]

\* C6: in the warehouse strategy every sector's cor_<race> is
\* race_15p + children_0_14 * share, where share is the race's 15+ total
\* over the 15+ population, both summed over the sectors of the same
\* municipality (first 7 digits of the id) and no others. The share is a
\* quotient, so this is stated where the municipality's 15+ population is
\* not 0.
C6_ImputedRaceTotal ==
    RaceBdDone =>
        \A id \in DOMAIN raceIn.df, i \in 1..5 :
            MuniPop15p(id) # 0 =>
                /\ IsFinite(CorOf(id, i))
                /\ CorOf(id, i).n * MuniPop15p(id) =
                      CorOf(id, i).d *
                        (IntRace15p(id, i) * MuniPop15p(id)
                         + IntChildren(id) * MuniRace15p(id, i))

\* two municipalities in one table: the sector of the other municipality has
\* 15+ people but none of race branca, and does not lower the share
C6_Witness ==
    /\ RaceBdDone
    /\ DOMAIN raceIn.df = {SectorA1, SectorB1}
    /\ IntChildren(SectorA1) = 1
    /\ IntPop15p(SectorA1) = 1 /\ IntRace15p(SectorA1, 1) = 1
    /\ IntPop15p(SectorB1) = 1 /\ IntRace15p(SectorB1, 1) = 0
    /\ CorOf(SectorA1, 1) = Fin(2)

\* C7: in a municipality whose summed 15+ population is 0 every race share
\* is 0, so that cor_<race> is the sector's own 15+ total of the race; and
\* every imputed cor_<race> is finite and >= 0.
C7_ZeroShareAndFinite ==
    RaceBdDone =>
        \A id \in DOMAIN raceIn.df, i \in 1..5 :
            /\ IsFinite(CorOf(id, i))
            /\ FGeq0(CorOf(id, i))
            /\ MuniPop15p(id) = 0 => CorOf(id, i) = Fin(IntRace15p(id, i))


(***************************************************************************)
(* Properties of archive resolution                                        *)
(***************************************************************************)
PickDone == pickIn # Idle /\ pickOut # Idle

\* The files of the listing that match <STEM>_<8 digits>.zip
DatedMatches ==
    {Basename(pickIn.files[i]) :
        i \in {j \in 1..Len(pickIn.files) :
                 MatchesDated(Basename(pickIn.files[j]), pickIn.stem)}}

\* C9: when one or more file names of the listing match <STEM>_<8 digits>.zip
\* whatever the case, _pick_zip_for_stem returns the URL of a match whose
\* date token no other match exceeds; an undated or fuzzy-variant name is
\* never chosen over a dated strict match.
C9_PicksGreatestDatedMatch ==
    (PickDone /\ DatedMatches # {}) =>
        /\ pickOut.value.kind = "url"
        /\ pickOut.value.name \in DatedMatches
        /\ \A other \in DatedMatches :
              ~StrLess(DateToken(pickOut.value.name), DateToken(other))

(***************************************************************************)
(* Properties of the fetch plan                                            *)
(***************************************************************************)
PlanDone == planIn # Idle /\ planOut # Idle

\* A 2010 theme whose archives are per region: its URL template holds {stem}
PlansByStem ==
    /\ planIn.spec.year = 2010
    /\ \A i \in 1..Len(planIn.spec.ftp_resources) :
          planIn.spec.ftp_resources[i].url_template.placeholder

RequestedMunis == Range(planIn.munis)
InSaoPauloState(m) == m \div 100000 = 35
PlannedStems == {planOut.value.lookups[i].stem : i \in 1..Len(planOut.value.lookups)}
LookupsOfState(uf) ==
    {i \in 1..Len(planOut.value.lookups) : planOut.value.lookups[i].uf = uf}
TargetContexts == {planOut.value.targets[i].context : i \in 1..Len(planOut.value.targets)}
TargetNames == {planOut.value.targets[i].url.name : i \in 1..Len(planOut.value.targets)}
OtherStatesNeeded ==
    {STATE_MAP[m \div 100000] :
        m \in {x \in RequestedMunis : x \div 100000 \in DOMAIN STATE_MAP}} \ {UfSP}

\* C10: when a request needs the Sao Paulo region, SP_Capital is planned
\* exactly if the capital 3550308 is requested and SP_Exceto_a_Capital
\* exactly if a requested municipality of the state is not the capital; a
\* request whose only Sao Paulo municipality is the capital neither resolves
\* nor plans the download of the rest-of-region archive; every other region
\* needed is resolved under one stem, its abbreviation.
C10_SaoPauloStems ==
    (PlanDone /\ PlansByStem /\ planOut.value.kind = "plan") =>
        /\ (\E m \in RequestedMunis : InSaoPauloState(m)) =>
              /\ StemSPCapital \in PlannedStems <=> SP_CAPITAL_MUNI \in RequestedMunis
              /\ StemSPExceto \in PlannedStems
                    <=> \E m \in RequestedMunis :
                           InSaoPauloState(m) /\ m # SP_CAPITAL_MUNI
        /\ (\A m \in RequestedMunis : InSaoPauloState(m) => m = SP_CAPITAL_MUNI) =>
              /\ StemSPExceto \notin PlannedStems
              /\ StemSPExceto \notin TargetContexts
              /\ \A n \in TargetNames : ~MatchesFuzzyExceto(n)
        /\ \A uf \in OtherStatesNeeded :
              /\ {planOut.value.lookups[i].stem : i \in LookupsOfState(uf)} = {uf}
              /\ Cardinality(LookupsOfState(uf)) = Len(planIn.spec.ftp_resources)
        /\ \A i \in 1..Len(planOut.value.lookups) :
              planOut.value.lookups[i].uf \in OtherStatesNeeded \union {UfSP}
        /\ \A i \in 1..Len(planOut.value.lookups) :
              planOut.value.lookups[i].uf # UfSP =>
                 planOut.value.lookups[i].stem = planOut.value.lookups[i].uf

\* A request for the capital alone, with both Sao Paulo archives listed, has
\* been planned: one target, the capital's archive.
C10_Witness ==
    /\ PlanDone /\ PlansByStem /\ planOut.value.kind = "plan"
    /\ RequestedMunis = {SP_CAPITAL_MUNI}
    /\ FileSPExceto2011 \in Range(planIn.files)
    /\ FileSPCapital2010 \in Range(planIn.files)
    /\ PlannedStems = {StemSPCapital}
    /\ TargetNames = {FileSPCapital2010}


(***************************************************************************)
(* Properties of load_census                                               *)
(***************************************************************************)
LoadEnded == lc # Idle /\ lc.pc \in {"returned", "raised"}

RequestedThemes ==
    IF lc.themesArg.given THEN lc.themesArg.list ELSE <<"basic">>

\* C3: a call of load_census with one or more resolvable places and one or
\* more themes, all registered for the year and the strategy, whose every
\* fetch returned rows of tracts the geometry holds, returns a table with
\* rows, the geometry and the columns of every requested theme.
C3_LoadReturnsEveryTheme ==
    (/\ LoadEnded
     /\ lc.places # <<>>
     /\ RequestedThemes # <<>>
     /\ \A t \in Range(RequestedThemes) :
           <<t, lc.year, lc.strategy>> \in DOMAIN CATALOG_INDEX
     /\ \A i \in 1..Len(lc.fetched) : lc.fetched[i] = "rows")
    => /\ lc.outcome.kind = "table"
       /\ lc.outcome.rows
       /\ Range(RequestedThemes) \subseteq Range(lc.outcome.themes)


(***************************************************************************)
(* Properties of fetch_census_ftp (checked under SpecFetch)                *)
(***************************************************************************)
FetchEnded == ft # Idle /\ ft.pc \in {"returned", "raised"}
FetchReturned == ft # Idle /\ ft.pc = "returned"

\* The 7-digit zero-padded codes of the requested municipalities
RequestedCodes == {ZFill(Str(ft.munis[i]), 7) : i \in 1..Len(ft.munis)}

\* C11: every row fetch_census_ftp returns has a tract id whose first 7
\* characters are the 7-digit zero-padded code of a requested municipality,
\* whatever the archive members hold.
C11_RowsOfRequestedMunis ==
    FetchReturned =>
        \A i \in 1..Len(ft.result.rows) :
            /\ ft.result.rows[i].indexed
            /\ Len(ft.result.rows[i].id) >= 7
            /\ SubSeq(ft.result.rows[i].id, 1, 7) \in RequestedCodes

\* The canonical names of the column_map keys that match a column of the
\* header whatever the case, the id apart.
CanonicalMatched(spec, header) ==
    {ColumnMapOf(spec)[i][2] :
        i \in {j \in 1..Len(ColumnMapOf(spec)) :
                 \E h \in 1..Len(header) :
                    Lower(Strip(header[h])) = Lower(Strip(ColumnMapOf(spec)[j][1]))}}
        \ {ID_SETOR}

\* C12: the data columns of the table fetch_census_ftp returns from one
\* member are exactly the canonical names of the column_map keys that
\* match a header column case-insensitively: a matched column appears under
\* its canonical name, an unmatched one is left out, and a header column
\* outside the mapping never appears.
C12_CanonicalColumns ==
    (/\ FetchReturned
     /\ Len(ft.archives) = 1
     /\ ft.archives[1].kind = "member"
     /\ ft.result.rows # <<>>)
    => ft.result.cols = CanonicalMatched(ft.spec, ft.archives[1].header)

\* An archive of the plan yields rows of the requested municipalities.
YieldsRows(archive) ==
    /\ archive.kind = "member"
    /\ \E i \in 1..Len(archive.ids) :
          SubSeq(ZFill(Strip(archive.ids[i]), 15), 1, 7) \in RequestedCodes

\* C13: fetch_census_ftp raises exactly if no stem yields rows; in
\* particular, when every planned archive fails, has no matching member or
\* yields no rows, the caller gets an error and not a normal result.
C13_RaisesIffNoRows ==
    FetchEnded =>
        /\ (ft.result.rows = <<>>) => ft.pc = "raised"
        /\ (ft.pc = "raised") => \A i \in 1..Len(ft.archives) : ~YieldsRows(ft.archives[i])


(***************************************************************************)
(* Properties of load_census with several themes (checked under SpecLoad)  *)
(***************************************************************************)
\* C14: a load_census call that names several themes does not end in the
\* error of one theme: a theme that fails is logged and left out, and the
\* call goes on to the other themes.
C14_ThemeFailureTolerated ==
    (/\ LoadEnded
     /\ Len(RequestedThemes) >= 2
     /\ \E t \in Range(RequestedThemes) :
           <<t, lc.year, lc.strategy>> \in DOMAIN CATALOG_INDEX)
    => lc.outcome.theme = ""

(***************************************************************************)
(* Properties of the urban mask (checked under SpecMask)                   *)
(***************************************************************************)
\* A polygon of the footprint, in the target system, meets the box
FootprintMeetsBox ==
    \E i \in 1..Len(mk.urban.rows) :
        ProjectGeom(mk.urban.rows[i].geom, mk.urban.crs, mk.target)
            \cap BoxOf(mk.bbox) # {}

\* C15: when no polygon of the footprint intersects the bounding box,
\* create_urban_mask returns a mask of zero rows in the target CRS, and
\* clip_to_mask of a tract table against it returns zero rows with the
\* table's columns, without an error; when a polygon does intersect the
\* box, the mask holds exactly one polygon.
C15_EmptyMaskAndSinglePolygon ==
    /\ (mk # Idle /\ mk.pc \in {"clip", "done"}) =>
          /\ mk.mask.crs = mk.target
          /\ ~FootprintMeetsBox => mk.mask.rows = <<>>
          /\ FootprintMeetsBox => Len(mk.mask.rows) = 1 /\ mk.mask.rows[1].geom # {}
    /\ (mk # Idle /\ mk.pc = "done" /\ ~FootprintMeetsBox) =>
          /\ mk.clipped.error = "none"
          /\ mk.clipped.rows = <<>>
          /\ mk.clipped.cols = mk.tracts.cols

\* A table with tracts was clipped against the empty mask of a footprint
\* whose polygons all miss the box.
C15_Witness ==
    /\ mk # Idle /\ mk.pc = "done"
    /\ mk.urban.rows # <<>> /\ ~FootprintMeetsBox
    /\ \E i \in 1..Len(mk.urban.rows) : mk.urban.rows[i].geom # {}
    /\ mk.tracts.rows # <<>>
    /\ mk.clipped.rows = <<>>

(***************************************************************************)
(* Properties of prepare_tracts (checked under SpecPrepare)                *)
(***************************************************************************)
\* C16: prepare_tracts is idempotent: applied to the table it returned, it
\* raises no error and returns the same table (same rows, same ids as the
\* index, same CRS, same geometries, same columns).
C16_PrepareIdempotent ==
    (pt # Idle /\ pt.pc = "done") => pt.twice = pt.once

\* A raw table in geographic coordinates with a float-like code and an
\* invalid geometry was prepared twice.
C16_Witness ==
    /\ pt # Idle /\ pt.pc = "done"
    /\ pt.raw.crs = CrsGeographic
    /\ CODE_TRACT \in pt.raw.cols
    /\ \E i \in 1..Len(pt.raw.rows) :
          /\ pt.raw.rows[i].raw = RawIdFloat
          /\ ~pt.raw.rows[i].geom.null /\ ~pt.raw.rows[i].geom.valid
          /\ pt.once.rows[i].idx = RawIdRio
          /\ pt.once.rows[i].geom.valid
    /\ pt.once.crs # pt.raw.crs
    /\ pt.twice.kind = "table"

(***************************************************************************)
(* The shape of the tract ids (checked under SpecFetch)                    *)
(***************************************************************************)
\* C17: every tract id that indexes a row fetch_census_ftp returns has
\* exactly 15 characters, whatever the raw identifier of the member, and
\* starts with the 7-digit code of the municipality that owns the tract.
C17_TractIdLength15 ==
    FetchReturned =>
        \A i \in 1..Len(ft.result.rows) :
            ft.result.rows[i].indexed =>
                /\ Len(ft.result.rows[i].id) = 15
                /\ SubSeq(ft.result.rows[i].id, 1, 7) \in RequestedCodes

(***************************************************************************)
(* Properties of the harmonization dispatch (checked under SpecDispatch)   *)
(***************************************************************************)
\* C18: for a (theme, year) that has no registered handler,
\* standardize_census_dataframe returns its input table unchanged (same
\* rows, columns and values), whatever the strategy.
C18_UnregisteredPassThrough ==
    (/\ sd # Idle /\ sd.pc = "done"
     /\ ~(sd.theme \in {"basic", "income", "race", "age"} /\ sd.year \in {2010, 2022}))
    => sd.out = sd.df

\* A table with the raw column v002 went through the dispatch for a theme
\* that is registered for other years only, and came back unchanged.
C18_Witness ==
    /\ sd # Idle /\ sd.pc = "done"
    /\ sd.theme = "basic" /\ sd.year = 2000
    /\ ColName("v", 2, 3) \in ColumnsOf(sd.df)
    /\ sd.out = sd.df

(***************************************************************************)
(* Properties of cached_download (checked under SpecDownload)              *)
(***************************************************************************)
\* The file holds the whole body of its response
Complete(f) == f.present /\ f.n = dl.lens[f.resp]
DownloadFailed == dl.pc = "idle" /\ dl.last \in {"RuntimeError", "crashed"}

\* Every file at the final path is complete; a download is begun only when
\* the final file is absent or the call is forced, and a call that is not
\* forced and finds the final file leaves it and downloads nothing.
FinalCompleteAndReused ==
    /\ dl.fs[dl.out].present => Complete(dl.fs[dl.out])
    /\ dl.pc # "idle" => (dl.force \/ ~dl.startFinal.present)
    /\ dl.last = "cached" =>
          /\ dl.startFinal.present /\ ~dl.force
          /\ dl.fs[dl.out] = dl.startFinal

\* C19 (as stated): in every state, also after a crash or an error at any
\* point of a download, a file at the final path holds a complete response
\* body; after a failed or interrupted download there is no file at the
\* final path, so that a later call downloads again; a call that finds the
\* final file, without force, downloads nothing.
C19_FailedDownloadLeavesNoFinal ==
    dl # Idle =>
        /\ FinalCompleteAndReused
        /\ DownloadFailed => ~dl.fs[dl.out].present

\* C19 (amended): as above, but a failed or interrupted download leaves the
\* final path as it was when the call began: no file if there was none,
\* and the earlier complete file if the call was forced over one.
C19_FailedDownloadLeavesFinalAsBefore ==
    dl # Idle =>
        /\ FinalCompleteAndReused
        /\ DownloadFailed => dl.fs[dl.out] = dl.startFinal
        /\ (DownloadFailed /\ ~dl.force) => ~dl.fs[dl.out].present

\* A call that was killed or failed with no final file was followed by a
\* call that downloaded the whole body of a later response.
C19_Witness ==
    /\ dl # Idle /\ dl.pc = "idle"
    /\ dl.prev \in {"RuntimeError", "crashed"}
    /\ dl.last = "downloaded"
    /\ ~dl.startFinal.present
    /\ dl.fs[dl.out].present /\ dl.fs[dl.out].resp > 1
    /\ dl.lens[dl.fs[dl.out].resp] = MaxChunks

(***************************************************************************)
(* Properties of cached_extract_zip (checked under SpecExtract)            *)
(***************************************************************************)
\* The member resolves to a path that is not the destination or below it
ResolvesOutside(member) ==
    LET path == ResolveMember(Destination, member)
    IN \E i \in 1..Len(Destination) : Len(path) < i \/ path[i] # Destination[i]
Offenders == {i \in 1..Len(ex.archive) : ResolvesOutside(ex.archive[i])}

\* C20: when a member of the archive resolves outside the destination
\* directory, wherever it stands in the archive, no member of the archive
\* is ever written, every call of cached_extract_zip on it ends in
\* ValueError, and no later call takes the directory for an existing
\* extraction.
C20_ZipSlipWritesNothing ==
    (ex # Idle /\ Offenders # {}) =>
        /\ ex.entries = {}
        /\ ex.written = 0
        /\ (ex.pc = "idle" /\ ex.last # "none") => ex.last = "ValueError"
        /\ ex.prev \in {"none", "ValueError"}

\* An archive whose last member, after two harmless ones, resolves outside
\* the destination was rejected twice with nothing written.
C20_Witness ==
    /\ ex # Idle /\ ex.pc = "idle"
    /\ Offenders = {3}
    /\ ex.calls >= 2
    /\ ex.prev = "ValueError" /\ ex.last = "ValueError"
    /\ ex.exists /\ ex.entries = {}

(***************************************************************************)
(* Properties of the aggregation tags (checked under SpecHarmonize)        *)
(***************************************************************************)
\* C21: for every catalog row, each column the harmonization of the row
\* outputs (the rename map, then the handler of the theme and year) is
\* listed in exactly one of extensive_vars and intensive_vars of the row,
\* and no column is listed in both.
C21_OutputColumnsTaggedOnce ==
    (sd # Idle /\ sd.pc = "done") =>
        /\ extensive_vars(sd) \cap intensive_vars(sd) = {}
        /\ \A c \in ColumnsOf(sd.out) :
              c \in extensive_vars(sd) \cup intensive_vars(sd)

(***************************************************************************)
(* Properties of the construction of the index (checked under SpecIndex)   *)
(***************************************************************************)
DuplicateKey(catalog) ==
    \E i, j \in 1..Len(catalog) : i # j /\ KeyOf(catalog[i]) = KeyOf(catalog[j])

\* C22: no (theme, year, strategy) key is registered twice: the index built
\* from a catalog holds exactly one entry per catalog row, and the
\* construction from a catalog in which two rows share the key is rejected
\* instead of binding an index in which one row replaced the other.
C22_DuplicateKeyRejected ==
    (ix # Idle /\ ix.pc = "done") =>
        IF DuplicateKey(ix.catalog) THEN ix.state = "raised"
        ELSE Cardinality(DOMAIN ix.index) = Len(ix.catalog)

(***************************************************************************)
(* Properties of the isolation of failures in fetch_census_ftp (checked    *)
(* under SpecFetch)                                                        *)
(***************************************************************************)
\* The rows of a parsed member that belong to the requested municipalities
MatchingIds(munis, archive) ==
    {id \in {StandardId(archive.ids[i]) : i \in 1..Len(archive.ids)} :
        SubSeq(id, 1, 7) \in StrMunis(munis)}

\* A member whose header carries the id column of the resource as declared
ParsedWithId(spec, archive) ==
    /\ archive.kind = "member"
    /\ IdColOf(spec.ftp_resources[1]) \in Range(archive.header)

\* C23: in fetch_census_ftp an archive that fails (cannot be resolved,
\* downloaded or opened, holds no matching member, cannot be parsed) is
\* skipped and neither discards nor prevents the rows of the others: the
\* returned table holds the rows of the requested municipalities of every
\* member that was parsed, in whatever order the archives were processed.
C23_ParsedMembersKept ==
    FetchReturned =>
        \A i \in 1..Len(ft.archives) :
            ParsedWithId(ft.spec, ft.archives[i]) =>
                \A id \in MatchingIds(ft.munis, ft.archives[i]) :
                    IndexedRow(id) \in Range(ft.result.rows)

(***************************************************************************)
(* Properties of the aggregation rules of the hexagon output (checked      *)
(* under SpecClassify)                                                     *)
(***************************************************************************)
\* C24: before the reallocation to hexagons every non-geometry column of
\* the merged table is classified as exactly one of extensive and
\* intensive (by its tag, or else by its name), so that no column is left
\* unclassified or missing from the hexagon table.
C24_EveryColumnClassified ==
    (cl # Idle /\ cl.pc = "done") =>
        \A c \in cl.cols :
            /\ (c \in Range(cl.valid_ext)) # (c \in Range(cl.valid_int))
            /\ c \in cl.out

(***************************************************************************)
(* Properties of the rows load_census returns (checked under SpecJoin)     *)
(***************************************************************************)
\* C25: joining the themes never changes the row set: with tract geometry
\* and no clipping the table returned holds exactly one row per prepared
\* tract, the tracts without data included, and no other row.
C25_OneRowPerPreparedTract ==
    (jn # Idle /\ jn.pc = "returned") => jn.out = jn.tracts

(***************************************************************************)
(* Properties of the fetch plan of the 2010 themes (checked under          *)
(* SpecPlan)                                                               *)
(***************************************************************************)
NeededStems ==
    UNION {Range(stems_for_state_2010(uf, planIn.munis)) :
           uf \in RequiredStates(planIn.munis)}
ResolvedStems ==
    {s \in NeededStems : pick_zip_for_stem(planIn.files, s).kind = "url"}
TargetsOf(resource, stem) ==
    {i \in 1..Len(planOut.value.targets) :
        /\ planOut.value.targets[i].resource = resource
        /\ planOut.value.targets[i].context = stem}

\* C26: for every 2010 theme of the archive strategy and every request with
\* a municipality of a known state, the plan holds exactly one entry per
\* resource and needed stem whose archive was resolved, labelled with the
\* stem, and the URL of every entry is a file name of the fetched listing
\* of the directory; the municipalities of no known state add no entry.
C26_OneEntryPerResolvedStem ==
    (PlanDone /\ planIn.spec.year = 2010 /\ planOut.value.kind = "plan") =>
        /\ \A r \in Range(planIn.spec.ftp_resources) : \A s \in ResolvedStems :
              Cardinality(TargetsOf(r, s)) = 1
        /\ \A i \in 1..Len(planOut.value.targets) :
              /\ planOut.value.targets[i].context \in ResolvedStems
              /\ planOut.value.targets[i].url.kind = "picked"
              /\ planOut.value.targets[i].url.name \in Range(planIn.files)

(***************************************************************************)
(* Properties of two concurrent cached_download calls (checked under       *)
(* SpecConcurrent)                                                         *)
(***************************************************************************)
\* C27: when two processes call cached_download for the same URL at the
\* same time, in every interleaving a file visible at the final path is
\* whole, and a call whose download met no network error returns the path
\* without raising.
C27_ConcurrentCallsSafe ==
    cd # Idle =>
        /\ cd.out # 0 => cd.files[cd.out] = WholeFile
        /\ \A p \in Procs : cd.procs[p].pc = "raised" => cd.procs[p].failed

(***************************************************************************)
(* Properties of the imputation of the children (checked under             *)
(* SpecConserve)                                                           *)
(***************************************************************************)
SectorRaces15p(id) == SumOver(1..5, [i \in 1..5 |-> IntRace15p(id, i)])
MuniRaces15p(id) == SumOver(1..5, [i \in 1..5 |-> MuniRace15p(id, i)])
CorTotal(id) == FSum(1..5, [i \in 1..5 |-> CorOf(id, i)])

\* The sectors the conservation is stated for
Conserving(id) ==
    /\ IsFinite(raceIn.df[id][Named("pessoas")])
    /\ SectorRaces15p(id) = IntPop15p(id)
    /\ IntCell(raceIn.df[id], Named("pessoas")) >= IntPop15p(id)
    /\ MuniPop15p(id) # 0
    /\ MuniRaces15p(id) = MuniPop15p(id)

DeclaredInHeader(spec, archive) ==
    Range(RequiredColumnsOf(spec)) \cap Range(archive.header)

\* C29: for every catalog row of the archive strategy, each source column
\* the row declares in required_columns and the member's header carries is
\* loaded by fetch_census_ftp and is a column of the table handed to the
\* handler, for a member that holds rows of the requested municipalities.
C29_DeclaredColumnsLoaded ==
    FetchReturned =>
        \A i \in 1..Len(ft.archives) :
            (/\ ParsedWithId(ft.spec, ft.archives[i])
             /\ MatchingIds(ft.munis, ft.archives[i]) # {})
            => \A c \in DeclaredInHeader(ft.spec, ft.archives[i]) :
                  RenameCol(c, ColumnMapOf(ft.spec)) \in ft.result.cols

(***************************************************************************)
(* Properties of the age brackets on the declared columns (checked under   *)
(* SpecBrackets)                                                           *)
(***************************************************************************)
ProbeDone == ageIn # Idle /\ ageOut # Idle
ProbeSpec == [theme |-> "age", year |-> ageIn.year, strategy |-> ageIn.strategy]
Brackets == {A0, A15, A20, A65}

\* The age sub-columns the catalog row declares, as the handler gets them
DeclaredSubColumns ==
    {HandlerName(ProbeSpec, c) : c \in required_columns(ProbeSpec)}
        \ {TotalColumn(ageIn.year, ageIn.strategy)}

\* The brackets of the same row with the probed column at 0
HandleAge(year, row, strategy) ==
    IF year = 2010 THEN handle_age_2010(row, strategy)
    ELSE handle_age_2022(row, strategy)
BaseBrackets ==
    HandleAge(ageIn.year, [ageIn.df EXCEPT ![ageIn.col] = Fin(0)], ageIn.strategy)

\* One person in the probed column is one person more in the bracket
AddedInto(b) == FSub(ageOut.value[b], BaseBrackets[b]) = Fin(1)
\* The bracket is as without the person; the residual bracket of 2022 may
\* be one person lower
NotAddedInto(b) ==
    \/ ageOut.value[b] = BaseBrackets[b]
    \/ /\ b = A0 /\ ageIn.year = 2022
       /\ FSub(BaseBrackets[b], ageOut.value[b]) = Fin(1)

\* C30: for every age row of the catalog, each age sub-column the row
\* declares in required_columns (the total-population column aside) is
\* added into exactly one of the four brackets by the handler of the year,
\* and a sub-column the row does not declare is added into none.
C30_DeclaredColumnInOneBracket ==
    ProbeDone =>
        IF ageIn.col \in DeclaredSubColumns
        THEN \E b \in Brackets :
                /\ AddedInto(b)
                /\ \A o \in Brackets \ {b} : NotAddedInto(o)
        ELSE \A b \in Brackets : ageOut.value[b] = BaseBrackets[b]

\* v054, the first column of the 20-64 range of 2010, counts there and not
\* in the 15-19 bracket that ends before it.
C30_Witness ==
    /\ ProbeDone
    /\ ageIn.year = 2010 /\ ageIn.strategy = "ftp_csv"
    /\ ageIn.col = ColName("v", 54, 3)
    /\ ageIn.col \in DeclaredSubColumns
    /\ ageOut.value[A20] = Fin(1)
    /\ ageOut.value[A15] = Fin(0)

====
